---- MODULE Spec2Model ----
(***************************************************************************)
(* jsonsubschema with semantic check: the semantic-type resolver           *)
(* (semantic_type.py), the semantic compatibility checker and the public   *)
(* operations isSubschema / meet / join / isEquivalent (api.py).           *)
(*                                                                         *)
(* Strings are sequences of tokens: "ex:T" is <<"ex", ":", "T">> and       *)
(* "http://example.org/T" is <<"http://", "example.org/", "T">>.           *)
(* A schema document (a Python dict) is a function from keyword to value;  *)
(* a keyword the dict does not hold is not in its DOMAIN.  A list of item  *)
(* schemas is [list |-> <<...>>] and a boolean additionalProperties is     *)
(* [bool |-> b], so that dict / list / bool can be told apart as           *)
(* isinstance does.                                                        *)
(***************************************************************************)
EXTENDS Integers, Sequences, FiniteSets, TLC

VARIABLES
    SEMANTIC_REASONING_ENABLED, \* config.SEMANTIC_REASONING_ENABLED
    instance,                   \* SemanticTypeResolver._instance
    backend_transitive,         \* does graph.query answer property paths
    network,                    \* what graph.parse(namespace) finds, by namespace
    call,                       \* the last public operation and its result
    ncalls,                     \* public operations called so far
    query,                      \* the last operation on the resolver and its result
    nqueries,                   \* operations on the resolver called so far
    threads,                    \* each thread's place in is_subtype_of
    order,                      \* the orders the next operation walks its sets in
    heap                        \* the triples of the caller's graph objects, by identity

vars == <<SEMANTIC_REASONING_ENABLED, instance, backend_transitive, network,
          call, ncalls, query, nqueries, threads, order, heap>>

(***************************************************************************)
(* Bounds.                                                                 *)
(***************************************************************************)
\* numeric keywords minimum / maximum range over 0..MaxNum
MaxNum == 2
\* public operations per behaviour
MaxCalls == 1
\* operations on the resolver per behaviour
MaxQueries == 3
\* the sets of one operation that are walked each in an order of its own
MaxWalks == 2
\* the members of a set of which every order is told apart
MaxMembers == 3

(***************************************************************************)
(* Python values.                                                          *)
(***************************************************************************)
None == <<"None">>
EmptyDict == [k \in {} |-> TRUE]

Get(d, k) == IF k \in DOMAIN d THEN d[k] ELSE None
GetOr(d, k, default) == IF k \in DOMAIN d THEN d[k] ELSE default
Put(d, k, v) == [x \in (DOMAIN d) \cup {k} |-> IF x = k THEN v ELSE d[x]]

\* isinstance(v, dict) / isinstance(v, list) for the value of items or
\* additionalProperties
IsDict(v) == "list" \notin DOMAIN v /\ "bool" \notin DOMAIN v
IsList(v) == "list" \in DOMAIN v
\* truthiness of such a value: {} , [] and False are falsy
Truthy(v) ==
    IF IsList(v) THEN v.list # <<>>
    ELSE IF "bool" \in DOMAIN v THEN v.bool
    ELSE DOMAIN v # {}
\* truthiness of s.get('stype'): None and "" are falsy
TruthyStr(v) == v # None /\ v # <<>>

(***************************************************************************)
(* normalize_iri.                                                          *)
(***************************************************************************)
prefixes ==
    [p \in {<<"quantitykind">>, <<"qudt">>, <<"skos">>, <<"ex">>, <<"foaf">>} |->
        CASE p = <<"quantitykind">> -> <<"http://", "qudt.org/vocab/quantitykind/">>
          [] p = <<"qudt">>         -> <<"http://", "qudt.org/schema/qudt/">>
          [] p = <<"skos">>         -> <<"http://", "www.w3.org/2004/02/skos/core#">>
          [] p = <<"ex">>           -> <<"http://", "example.org/">>
          [] p = <<"foaf">>         -> <<"http://", "xmlns.com/foaf/0.1/">>]

\* index of the first ":" token, 0 when there is none
FirstColon(v) ==
    IF \E i \in 1..Len(v) : v[i] = ":"
    THEN CHOOSE i \in 1..Len(v) : v[i] = ":" /\ \A j \in 1..(i - 1) : v[j] # ":"
    ELSE 0

\* normalize_iri that splits at the last colon (rsplit) instead of the first
normalize_iri_last_colon(stype_value) ==
    IF stype_value = None \/ stype_value = <<>> THEN stype_value
    ELSE IF Head(stype_value) \in {"http://", "https://"} THEN stype_value
    ELSE LET v == stype_value
             i == IF \E k \in 1..Len(v) : v[k] = ":"
                  THEN CHOOSE k \in 1..Len(v) :
                           v[k] = ":" /\ \A j \in (k + 1)..Len(v) : v[j] # ":"
                  ELSE 0
         IN
         IF i = 0 THEN stype_value
         ELSE LET prefix == SubSeq(stype_value, 1, i - 1)
                  local  == SubSeq(stype_value, i + 1, Len(stype_value))
              IN  IF prefix \in DOMAIN prefixes
                  THEN prefixes[prefix] \o local
                  ELSE stype_value

normalize_iri(stype_value) ==
    IF stype_value = None \/ stype_value = <<>> THEN stype_value
    ELSE IF Head(stype_value) \in {"http://", "https://"} THEN stype_value
    ELSE LET i == FirstColon(stype_value) IN
         IF i = 0 THEN stype_value
         ELSE LET prefix == SubSeq(stype_value, 1, i - 1)
                  local  == SubSeq(stype_value, i + 1, Len(stype_value))
              IN  IF prefix \in DOMAIN prefixes
                  THEN prefixes[prefix] \o local
                  ELSE stype_value

\* the tokens that end in "#" and the tokens that end in "/"; every other
\* token holds neither character
HashTokens == {"www.w3.org/2004/02/skos/core#"}
SlashTokens ==
    {"http://", "https://", "qudt.org/vocab/quantitykind/", "qudt.org/schema/qudt/",
     "example.org/", "xmlns.com/foaf/0.1/"}

\* _extract_namespace of an identifier that ends in a local name: the text
\* up to the first "#", else the text up to the last "/", else "/"
_extract_namespace(iri) ==
    IF \E i \in 1..Len(iri) : iri[i] \in HashTokens
    THEN SubSeq(iri, 1, CHOOSE i \in 1..Len(iri) :
                           iri[i] \in HashTokens
                           /\ \A j \in 1..(i - 1) : iri[j] \notin HashTokens)
    ELSE IF \E i \in 1..Len(iri) : iri[i] \in SlashTokens
    THEN SubSeq(iri, 1, CHOOSE i \in 1..Len(iri) :
                           iri[i] \in SlashTokens
                           /\ \A j \in (i + 1)..Len(iri) : iri[j] \notin SlashTokens)
    ELSE <<"/">>

(***************************************************************************)
(* The graph: a set of triples <<subject, predicate, object>>.             *)
(***************************************************************************)
broader_prop == "skos:broader"
subclass_prop == "rdfs:subClassOf"

\* graph.objects(subject, predicate)
Objects(graph, subject, predicate) ==
    {t[3] : t \in {u \in graph : u[1] = subject /\ u[2] = predicate}}

\* the members of a set, listed once each
RECURSIVE Listed(_)
Listed(S) ==
    IF S = {} THEN <<>>
    ELSE LET x == CHOOSE y \in S : TRUE IN <<x>> \o Listed(S \ {x})

\* a list without its i-th element
Without(seq, i) == SubSeq(seq, 1, i - 1) \o SubSeq(seq, i + 1, Len(seq))

\* the n-th permutation of a list: n = 0 leaves it as it is, and the n
\* below Len(seq)! give every order once
RECURSIVE Permuted(_, _)
Permuted(seq, n) ==
    IF seq = <<>> THEN <<>>
    ELSE <<seq[(n % Len(seq)) + 1]>>
             \o Permuted(Without(seq, (n % Len(seq)) + 1), n \div Len(seq))

RECURSIVE Factorial(_)
Factorial(n) == IF n <= 1 THEN 1 ELSE n * Factorial(n - 1)

\* of the orders o, the one of the walk that k walks of more than one
\* member came before
Digit(o, k) == IF o = <<>> THEN 0 ELSE o[(k % Len(o)) + 1]

\* a walk of more than one member has an order of its own
Walks(S) == IF Cardinality(S) > 1 THEN 1 ELSE 0

\* a set, or what graph.objects yields, as the list an iteration walks: the
\* language fixes no order, and each set is walked in one of its own
SetToSeq(S, k, o) == Permuted(Listed(S), Digit(o, k))

\* the orders an operation may walk its sets in: every order of up to
\* MaxMembers members for each of MaxWalks sets, one independently of
\* another
Orders == [1..MaxWalks -> 0..(Factorial(MaxMembers) - 1)]
\* of these, the ones that differ on sets of two members, the most a set
\* walked by the operations below holds
PairOrders == [1..MaxWalks -> {0, 1}]
\* every set as Listed lists it
FirstOrder == [k \in 1..MaxWalks |-> 0]

\* ?n p* ?b for one predicate p: zero or more p-edges
RECURSIVE PathStar(_, _, _, _)
PathStar(graph, predicate, frontier, seen) ==
    LET next == UNION {Objects(graph, n, predicate) : n \in frontier} \ seen IN
    IF next = {} THEN seen
    ELSE PathStar(graph, predicate, next, seen \cup next)

\* (uri_ref, None, None) in graph or (None, None, uri_ref) in graph
_type_exists_in_graph(graph, uri_ref) ==
    \E t \in graph : t[1] = uri_ref \/ t[3] = uri_ref

\* the while loop of _check_with_manual_traversal: what it returns and, in
\* expanded, the concepts it added to visited, in the order it did
\* walked counts the sets of more than one member walked so far
\* and o holds their orders
RECURSIVE _check_with_manual_traversal_loop(_, _, _, _, _, _, _)
_check_with_manual_traversal_loop(graph, to_check, visited, broader_ref, expanded, walked, o) ==
    IF to_check = <<>> THEN [result |-> FALSE, expanded |-> expanded]
    ELSE LET current == Head(to_check)
             rest == Tail(to_check)
         IN  IF current \in visited
             THEN _check_with_manual_traversal_loop(graph, rest, visited, broader_ref,
                                                    expanded, walked, o)
             ELSE LET b == Objects(graph, current, broader_prop)
                      s == Objects(graph, current, subclass_prop)
                  IN  IF broader_ref \in b \/ broader_ref \in s
                      THEN [result |-> TRUE, expanded |-> Append(expanded, current)]
                      ELSE _check_with_manual_traversal_loop(
                               graph,
                               rest \o SetToSeq(b, walked, o)
                                    \o SetToSeq(s, walked + Walks(b), o),
                               visited \cup {current}, broader_ref,
                               Append(expanded, current),
                               walked + Walks(b) + Walks(s), o)

\* the traversal that takes the start concept itself for a found target
_check_with_manual_traversal_reflexive(graph, narrower_iri, broader_iri) ==
    \/ narrower_iri = broader_iri
    \/ _check_with_manual_traversal_loop(graph, <<narrower_iri>>, {}, broader_iri,
                                         <<>>, 0, order).result

_check_with_manual_traversal(graph, narrower_iri, broader_iri) ==
    _check_with_manual_traversal_loop(graph, <<narrower_iri>>, {}, broader_iri,
                                      <<>>, 0, order).result

\* the tokens that hold a character SPARQL does not allow between "<" and
\* ">" (a space or another control character, a quote, a brace, ...); every
\* other token holds none
IllegalTokens == {"my type", " ", "<", ">", "{", "}", "|", "^"}

\* graph.query raises on the text of the transitive query: an identifier
\* written between "<" and ">" is no IRI reference
QueryRaises(narrower_iri, broader_iri) ==
    \E iri \in {narrower_iri, broader_iri} :
        \E i \in 1..Len(iri) : iri[i] \in IllegalTokens

\* ASK { { n skos:broader* b } UNION { n rdfs:subClassOf* b } }
ASK(graph, narrower_iri, broader_iri) ==
    \/ broader_iri \in PathStar(graph, broader_prop, {narrower_iri}, {narrower_iri})
    \/ broader_iri \in PathStar(graph, subclass_prop, {narrower_iri}, {narrower_iri})

\* try: return bool(self.graph.query(transitive_query))
\* except Exception: return self._check_with_manual_traversal(...)
_check_with_transitive_query(graph, narrower_iri, broader_iri) ==
    IF QueryRaises(narrower_iri, broader_iri)
    THEN _check_with_manual_traversal(graph, narrower_iri, broader_iri)
    ELSE ASK(graph, narrower_iri, broader_iri)

(***************************************************************************)
(* SemanticTypeResolver.  An instance is a record; NoInstance is           *)
(* _instance = None.                                                       *)
(***************************************************************************)
NoInstance == [live |-> FALSE]

\* a graph object handed to get_instance: its identity id(graph) and the
\* triples it holds; NoGraph is the argument graph=None
GraphObject(id, triples) == [id |-> id, triples |-> triples]
NoGraph == GraphObject("None", {})

\* SemanticTypeResolver.__init__: graph=None makes the resolver create a
\* graph of its own.  fetch_log lists the namespaces graph.parse was called
\* on ("Lazy loading namespace: ..."), in order.
NewResolver(graph, lazy_load) ==
    [live |-> TRUE,
     graph |-> IF graph.id # "None" THEN graph.triples ELSE {},
     graph_id |-> IF graph.id # "None" THEN graph.id ELSE "own",
     lazy_load |-> lazy_load,
     relation_cache |-> [k \in {} |-> TRUE],
     supports_transitive_queries |-> "None",
     fetched_namespaces |-> {},
     fetch_log |-> <<>>,
     walks |-> 0]

\* get_instance that constructs a resolver on every call
get_instance_always_new(inst, graph, lazy_load) == NewResolver(graph, lazy_load)

\* get_instance(graph, lazy_load); the defaults are graph=None,
\* lazy_load=False
get_instance(inst, graph, lazy_load) ==
    IF ~inst.live THEN NewResolver(graph, lazy_load)
    ELSE IF (graph.id # "None" /\ inst.graph_id # graph.id) \/ inst.lazy_load # lazy_load
    THEN NewResolver(graph, lazy_load)
    ELSE inst

\* _test_transitive_support: the flag once set is returned as it is
_test_transitive_support(r) ==
    IF r.supports_transitive_queries # "None" THEN r
    ELSE [r EXCEPT !.supports_transitive_queries =
              IF backend_transitive THEN "True" ELSE "False"]

\* graph.parse(namespace): what the network gives for a namespace
Failed == [ok |-> FALSE, triples |-> {}]
Loaded(triples) == [ok |-> TRUE, triples |-> triples]
Parse(namespace) == IF namespace \in DOMAIN network THEN network[namespace] ELSE Failed

\* a fetch that completed: the triples are in the graph, the namespace is
\* fetched, the cache is cleared and the support flag is untested again
_lazy_load_completed(r, namespace, triples) ==
    [r EXCEPT !.graph = @ \cup triples,
              !.fetched_namespaces = @ \cup {namespace},
              !.relation_cache = [k \in {} |-> TRUE],
              !.supports_transitive_queries = "None",
              !.fetch_log = Append(@, namespace)]

\* except Exception: self.fetched_namespaces.add(namespace)
_lazy_load_failed(r, namespace) ==
    [r EXCEPT !.fetched_namespaces = @ \cup {namespace},
              !.fetch_log = Append(@, namespace)]

\* try: self.graph.parse(namespace) ... except Exception: ...
_lazy_load_namespace(r, namespace) ==
    IF Parse(namespace).ok
    THEN _lazy_load_completed(r, namespace, Parse(namespace).triples)
    ELSE _lazy_load_failed(r, namespace)

\* _lazy_load_semantic_type without "if namespace in self.fetched_namespaces"
_lazy_load_semantic_type_refetching(r, stype_iri) ==
    IF ~r.lazy_load THEN r
    ELSE _lazy_load_namespace(r, _extract_namespace(stype_iri))

\* _lazy_load_semantic_type whose except clause does not record the namespace
_lazy_load_semantic_type_unrecorded(r, stype_iri) ==
    IF ~r.lazy_load THEN r
    ELSE IF _extract_namespace(stype_iri) \in r.fetched_namespaces THEN r
    ELSE IF Parse(_extract_namespace(stype_iri)).ok
    THEN _lazy_load_namespace(r, _extract_namespace(stype_iri))
    ELSE [r EXCEPT !.fetch_log = Append(@, _extract_namespace(stype_iri))]

\* _lazy_load_semantic_type: the resolver as the call leaves it
_lazy_load_semantic_type(r, stype_iri) ==
    IF ~r.lazy_load THEN r
    ELSE IF _extract_namespace(stype_iri) \in r.fetched_namespaces THEN r
    ELSE _lazy_load_namespace(r, _extract_namespace(stype_iri))

\* if not self._type_exists_in_graph(ref): self._lazy_load_semantic_type(iri)
_lazy_load_if_missing(r, iri) ==
    IF _type_exists_in_graph(r.graph, iri) THEN r
    ELSE _lazy_load_semantic_type(r, iri)

\* if self.lazy_load: the narrower identifier first, then the broader one
_lazy_load_unknown(r, narrower_iri, broader_iri) ==
    IF ~r.lazy_load THEN r
    ELSE _lazy_load_if_missing(_lazy_load_if_missing(r, narrower_iri), broader_iri)

\* add_test_relationship that also sets the support flag back to untested
add_test_relationship_resetting(r, narrower_iri, broader_iri) ==
    [r EXCEPT !.graph = @ \cup {<<normalize_iri(narrower_iri), broader_prop,
                                  normalize_iri(broader_iri)>>},
              !.relation_cache = [k \in {} |-> TRUE],
              !.supports_transitive_queries = "None"]

\* add_test_relationship: the triple is added and the cache cleared
add_test_relationship(r, narrower_iri, broader_iri) ==
    [r EXCEPT !.graph = @ \cup {<<normalize_iri(narrower_iri), broader_prop,
                                  normalize_iri(broader_iri)>>},
              !.relation_cache = [k \in {} |-> TRUE]]

CachePut(r, key, v) ==
    [r EXCEPT !.relation_cache =
        [k \in (DOMAIN r.relation_cache) \cup {key} |->
            IF k = key THEN v ELSE r.relation_cache[k]]]

\* the query answered without "self.relation_cache[cache_key] = result"
_check_without_cache(t, narrower_iri, broader_iri, result) ==
    [result |-> result, r |-> t]

\* result = ...; self.relation_cache[cache_key] = result; return result
_check_and_cache(t, narrower_iri, broader_iri, result) ==
    [result |-> result, r |-> CachePut(t, <<narrower_iri, broader_iri>>, result)]

\* if self._test_transitive_support(): ... else: ...
_check_with_supported_method(t, narrower_iri, broader_iri) ==
    _check_and_cache(t, narrower_iri, broader_iri,
        IF t.supports_transitive_queries = "True"
        THEN _check_with_transitive_query(t.graph, narrower_iri, broader_iri)
        ELSE _check_with_manual_traversal(t.graph, narrower_iri, broader_iri))

\* is_subtype_of without "if narrower_iri == broader_iri: return True"
is_subtype_of_without_identity(r, narrower, broader) ==
    IF ~SEMANTIC_REASONING_ENABLED
    THEN [result |-> narrower = broader, r |-> r]
    ELSE LET narrower_iri == normalize_iri(narrower)
             broader_iri == normalize_iri(broader)
             cache_key == <<narrower_iri, broader_iri>>
         IN  IF cache_key \in DOMAIN r.relation_cache
             THEN [result |-> r.relation_cache[cache_key], r |-> r]
             ELSE _check_with_supported_method(
                      _test_transitive_support(
                          _lazy_load_unknown(r, narrower_iri, broader_iri)),
                      narrower_iri, broader_iri)

\* is_subtype_of that does not normalize the broader identifier
is_subtype_of_unnormalized(r, narrower, broader) ==
    IF ~SEMANTIC_REASONING_ENABLED
    THEN [result |-> narrower = broader, r |-> r]
    ELSE LET narrower_iri == normalize_iri(narrower)
             broader_iri == broader
             cache_key == <<narrower_iri, broader_iri>>
         IN  IF narrower_iri = broader_iri
             THEN [result |-> TRUE, r |-> CachePut(r, cache_key, TRUE)]
             ELSE IF cache_key \in DOMAIN r.relation_cache
             THEN [result |-> r.relation_cache[cache_key], r |-> r]
             ELSE _check_with_supported_method(
                      _test_transitive_support(
                          _lazy_load_unknown(r, narrower_iri, broader_iri)),
                      narrower_iri, broader_iri)

\* is_subtype_of: the boolean returned and the resolver as the call leaves it
is_subtype_of(r, narrower, broader) ==
    IF ~SEMANTIC_REASONING_ENABLED
    THEN [result |-> narrower = broader, r |-> r]
    ELSE LET narrower_iri == normalize_iri(narrower)
             broader_iri == normalize_iri(broader)
             cache_key == <<narrower_iri, broader_iri>>
         IN  IF narrower_iri = broader_iri
             THEN [result |-> TRUE, r |-> CachePut(r, cache_key, TRUE)]
             ELSE IF cache_key \in DOMAIN r.relation_cache
             THEN [result |-> r.relation_cache[cache_key], r |-> r]
             ELSE _check_with_supported_method(
                      _test_transitive_support(
                          _lazy_load_unknown(r, narrower_iri, broader_iri)),
                      narrower_iri, broader_iri)

(***************************************************************************)
(* The semantic compatibility checker.  Every operator returns             *)
(* [ok |-> the boolean, r |-> the resolver as the call leaves it].         *)
(***************************************************************************)
Ok(r) == [ok |-> TRUE, r |-> r]
NotOk(r) == [ok |-> FALSE, r |-> r]
\* "if not <check>: return False", then the rest of the function
AndThen(c, rest(_)) == IF ~c.ok THEN c ELSE rest(c.r)
\* any(<check> for ...): the first check that holds ends the scan
OrElse(c, rest(_)) == IF c.ok THEN c ELSE rest(c.r)
\* return resolver.is_subtype_of(s1_stype, s2_stype)
Answer(q) == [ok |-> q.result, r |-> q.r]

\* the node rule with "only s2 annotated" accepted like "only s1 annotated"
_check_semantic_types_compatible_either_side(s1, s2, r) ==
    LET s1_stype == Get(s1, "stype")
        s2_stype == Get(s2, "stype")
    IN  IF s1_stype = None \/ s2_stype = None THEN Ok(r)
        ELSE Answer(is_subtype_of(r, s1_stype, s2_stype))

_check_semantic_types_compatible(s1, s2, r) ==
    LET s1_stype == Get(s1, "stype")
        s2_stype == Get(s2, "stype")
    IN  IF s1_stype = None /\ s2_stype = None THEN Ok(r)
        ELSE IF s1_stype # None /\ s2_stype = None THEN Ok(r)
        ELSE IF s1_stype = None /\ s2_stype # None THEN NotOk(r)
        ELSE Answer(is_subtype_of(r, s1_stype, s2_stype))

\* [v for v in items.values() if isinstance(v, dict)]: the dict values of a
\* dict, whatever the key; the values of type, stype, minimum, maximum,
\* $ref, anyOf, allOf and oneOf are strings, numbers and lists
DictValues(d) ==
    {d[k] : k \in {x \in DOMAIN d :
                      /\ x \notin {"type", "stype", "minimum", "maximum", "$ref",
                                    "anyOf", "allOf", "oneOf"}
                      /\ IsDict(d[x])}}

\* _has_semantic_types_in_items: a dict that holds 'stype' or holds a dict
\* value that holds it; a list with a dict entry that holds it

_has_semantic_types_in_items(items) ==
    IF IsDict(items)
    THEN "stype" \in DOMAIN items \/ \E v \in DictValues(items) : "stype" \in DOMAIN v
    ELSE IF IsList(items)
    THEN \E i \in 1..Len(items.list) : "stype" \in DOMAIN items.list[i]
    ELSE FALSE

Min(a, b) == IF a <= b THEN a ELSE b
Max(a, b) == IF a >= b THEN a ELSE b

\* the resolver after a walk of the set S: walks counts the sets of more
\* than one member the operation has walked
Walked(r, S) == [r EXCEPT !.walks = @ + Walks(S)]
\* the resolver an operation leaves
Settled(r) == IF r.live THEN [r EXCEPT !.walks = 0] ELSE r

RECURSIVE is_semantically_compatible(_, _, _)
RECURSIVE _check_nested_semantic_compatibility(_, _, _)
RECURSIVE AllCompatible(_, _)
RECURSIVE AnyCompatible(_, _, _)
RECURSIVE CountCompatible(_, _, _)
RECURSIVE AllOfLoop(_, _, _)
RECURSIVE AnyOfLoop(_, _, _)
RECURSIVE OneOfLoop(_, _, _)

\* for x, y in pairs: if not is_semantically_compatible(x, y): return False
AllCompatible(pairs, r) ==
    IF pairs = <<>> THEN Ok(r)
    ELSE AndThen(is_semantically_compatible(pairs[1][1], pairs[1][2], r),
                 LAMBDA r1 : AllCompatible(Tail(pairs), r1))

\* any(is_semantically_compatible(s1_schema, s2_schema) for s2_schema in s2_list)
AnyCompatible(s1_schema, s2_list, r) ==
    IF s2_list = <<>> THEN NotOk(r)
    ELSE OrElse(is_semantically_compatible(s1_schema, Head(s2_list), r),
                LAMBDA r1 : AnyCompatible(s1_schema, Tail(s2_list), r1))

\* sum(1 for s2_schema in s2_list if is_semantically_compatible(s1_schema, s2_schema))
CountOne(ok, t) == [n |-> t.n + (IF ok THEN 1 ELSE 0), r |-> t.r]
CountNext(c, rest(_)) == CountOne(c.ok, rest(c.r))
CountCompatible(s1_schema, s2_list, r) ==
    IF s2_list = <<>> THEN [n |-> 0, r |-> r]
    ELSE CountNext(is_semantically_compatible(s1_schema, Head(s2_list), r),
                   LAMBDA r1 : CountCompatible(s1_schema, Tail(s2_list), r1))

_check_object_properties_semantic_compatibility(s1, s2, r) ==
    LET s1_props == GetOr(s1, "properties", EmptyDict)
        s2_props == GetOr(s2, "properties", EmptyDict)
        common_props ==
            SetToSeq((DOMAIN s1_props) \cap (DOMAIN s2_props), r.walks, order)
    IN  AllCompatible([i \in 1..Len(common_props) |->
                          <<s1_props[common_props[i]], s2_props[common_props[i]]>>],
                      Walked(r, (DOMAIN s1_props) \cap (DOMAIN s2_props)))

_check_array_items_semantic_compatibility(s1, s2, r) ==
    IF ~("items" \in DOMAIN s1 /\ "items" \in DOMAIN s2) THEN Ok(r)
    ELSE LET s1_items == s1.items
             s2_items == s2.items
         IN  IF ~(Truthy(s1_items) /\ Truthy(s2_items)) THEN Ok(r)
             ELSE IF IsDict(s1_items) /\ IsDict(s2_items)
             THEN is_semantically_compatible(s1_items, s2_items, r)
             ELSE IF IsList(s1_items) /\ IsList(s2_items)
             THEN AllCompatible(
                      [i \in 1..Min(Len(s1_items.list), Len(s2_items.list)) |->
                          <<s1_items.list[i], s2_items.list[i]>>], r)
             ELSE IF (IsDict(s1_items) /\ IsList(s2_items))
                      \/ (IsList(s1_items) /\ IsDict(s2_items))
             THEN [ok |-> ~(_has_semantic_types_in_items(s1_items)
                             \/ _has_semantic_types_in_items(s2_items)),
                   r |-> r]
             ELSE Ok(r)

_check_additional_properties_semantic_compatibility(s1, s2, r) ==
    IF /\ "additionalProperties" \in DOMAIN s1
       /\ "additionalProperties" \in DOMAIN s2
       /\ IsDict(s1.additionalProperties)
       /\ IsDict(s2.additionalProperties)
    THEN is_semantically_compatible(s1.additionalProperties, s2.additionalProperties, r)
    ELSE Ok(r)

\* the nested check without the patternProperties dimension
_check_pattern_properties_skipped(s1, s2, r) == Ok(r)

_check_pattern_properties_semantic_compatibility(s1, s2, r) ==
    LET s1_pattern_props == GetOr(s1, "patternProperties", EmptyDict)
        s2_pattern_props == GetOr(s2, "patternProperties", EmptyDict)
        common_patterns ==
            SetToSeq((DOMAIN s1_pattern_props) \cap (DOMAIN s2_pattern_props),
                     r.walks, order)
    IN  AllCompatible([i \in 1..Len(common_patterns) |->
                          <<s1_pattern_props[common_patterns[i]],
                            s2_pattern_props[common_patterns[i]]>>],
                      Walked(r, (DOMAIN s1_pattern_props) \cap (DOMAIN s2_pattern_props)))

\* for s1_schema in s1_all_of: if not any(...): return False
AllOfLoop(s1_list, s2_list, r) ==
    IF s1_list = <<>> THEN Ok(r)
    ELSE AndThen(AnyCompatible(Head(s1_list), s2_list, r),
                 LAMBDA r1 : AllOfLoop(Tail(s1_list), s2_list, r1))

\* for s1_schema in s1_any_of: if any(...): compatible_found = True; break
AnyOfLoop(s1_list, s2_list, r) ==
    IF s1_list = <<>> THEN NotOk(r)
    ELSE OrElse(AnyCompatible(Head(s1_list), s2_list, r),
                LAMBDA r1 : AnyOfLoop(Tail(s1_list), s2_list, r1))

\* for s1_schema in s1_one_of: if compatible_count > 0: return True
Counted(c) == [ok |-> c.n > 0, r |-> c.r]
OneOfLoop(s1_list, s2_list, r) ==
    IF s1_list = <<>> THEN NotOk(r)
    ELSE OrElse(Counted(CountCompatible(Head(s1_list), s2_list, r)),
                LAMBDA r1 : OneOfLoop(Tail(s1_list), s2_list, r1))

\* if s1_xxx_of and s2_xxx_of: <loop>
Connective(s1, s2, keyword, r, Loop(_, _, _)) ==
    IF GetOr(s1, keyword, <<>>) # <<>> /\ GetOr(s2, keyword, <<>>) # <<>>
    THEN Loop(s1[keyword], s2[keyword], r)
    ELSE Ok(r)

\* the connective check with allOf treated like anyOf
_check_boolean_connectives_allof_as_anyof(s1, s2, r) ==
    AndThen(Connective(s1, s2, "allOf", r, AnyOfLoop), LAMBDA r1 :
    AndThen(Connective(s1, s2, "anyOf", r1, AnyOfLoop), LAMBDA r2 :
    Connective(s1, s2, "oneOf", r2, OneOfLoop)))

_check_boolean_connectives_semantic_compatibility(s1, s2, r) ==
    AndThen(Connective(s1, s2, "allOf", r, AllOfLoop), LAMBDA r1 :
    AndThen(Connective(s1, s2, "anyOf", r1, AnyOfLoop), LAMBDA r2 :
    Connective(s1, s2, "oneOf", r2, OneOfLoop)))

_check_nested_semantic_compatibility(s1, s2, r) ==
    AndThen(_check_object_properties_semantic_compatibility(s1, s2, r), LAMBDA r1 :
    AndThen(_check_array_items_semantic_compatibility(s1, s2, r1), LAMBDA r2 :
    AndThen(_check_additional_properties_semantic_compatibility(s1, s2, r2), LAMBDA r3 :
    AndThen(_check_pattern_properties_semantic_compatibility(s1, s2, r3), LAMBDA r4 :
    _check_boolean_connectives_semantic_compatibility(s1, s2, r4)))))

\* is_semantically_compatible(s1, s2, resolver) with a resolver given
is_semantically_compatible(s1, s2, r) ==
    IF ~SEMANTIC_REASONING_ENABLED THEN Ok(r)
    ELSE AndThen(_check_semantic_types_compatible(s1, s2, r),
                 LAMBDA r1 : _check_nested_semantic_compatibility(s1, s2, r1))

\* "return True" / "return False" of the check called by a caller
ReturnCheck(c) ==
    [result |-> c.ok, schema |-> EmptyDict, r |-> c.r, used |-> TRUE, error |-> "none"]

\* is_semantically_compatible(s1, s2) called without a resolver: the
\* singleton is fetched only when semantic reasoning is enabled
is_semantically_compatible_call(s1, s2, inst) ==
    IF ~SEMANTIC_REASONING_ENABLED
    THEN [result |-> TRUE, schema |-> EmptyDict, r |-> inst, used |-> FALSE,
          error |-> "none"]
    ELSE ReturnCheck(is_semantically_compatible(s1, s2, get_instance(inst, NoGraph, FALSE)))

(***************************************************************************)
(* The canonical schema algebra (canonicalization and the per-kind         *)
(* isSubtype / meet / join).  A canonical schema maps each kind it accepts *)
(* to that kind's descriptor; Bottom accepts no kind, Top accepts every    *)
(* kind unconstrained.  A descriptor holds only the keywords that          *)
(* constrain: an absent additionalProperties, items or additionalItems is  *)
(* Top.  The stype keyword is no part of a canonical schema.  The          *)
(* patterns of patternProperties match none of the declared property       *)
(* names.                                                                  *)
(***************************************************************************)
Kinds == {"number", "object", "array"}
KindOrder == <<"number", "object", "array">>

BottomC == [k \in {} |-> EmptyDict]
TopC == [k \in Kinds |-> EmptyDict]

NegInf == 0 - 1
PosInf == MaxNum + 1
NumLo(d) == IF "minimum" \in DOMAIN d THEN d.minimum ELSE NegInf
NumHi(d) == IF "maximum" \in DOMAIN d THEN d.maximum ELSE PosInf
MkNum(lo, hi) ==
    [k \in (IF lo = NegInf THEN {} ELSE {"minimum"})
           \cup (IF hi = PosInf THEN {} ELSE {"maximum"}) |->
        IF k = "minimum" THEN lo ELSE hi]

\* a record of the given optional fields: pairs <<key, present, value>>
MkRec(fields) ==
    [k \in {f[1] : f \in {g \in fields : g[2]}} |->
        (CHOOSE f \in fields : f[1] = k /\ f[2])[3]]

Props(d) == GetOr(d, "properties", EmptyDict)
PProps(d) == GetOr(d, "patternProperties", EmptyDict)
Addl(d) == GetOr(d, "additionalProperties", TopC)
\* the descriptor that governs a property name / a pattern in an object
EffProp(d, n) == IF n \in DOMAIN Props(d) THEN Props(d)[n] ELSE Addl(d)
EffPat(d, p) == IF p \in DOMAIN PProps(d) THEN PProps(d)[p] ELSE Addl(d)

IsTuple(d) == "tuple" \in DOMAIN d
TupleLen(d) == IF IsTuple(d) THEN Len(d.tuple) ELSE 0
Rest(d) == IF IsTuple(d) THEN GetOr(d, "additionalItems", TopC) ELSE GetOr(d, "items", TopC)
\* the descriptor of position i, the homogeneous array read as an infinite tuple
Pos(d, i) == IF i <= TupleLen(d) THEN d.tuple[i] ELSE Rest(d)

MkObj(props, pprops, addl) ==
    MkRec({<<"properties", DOMAIN props # {}, props>>,
           <<"patternProperties", DOMAIN pprops # {}, pprops>>,
           <<"additionalProperties", addl # TopC, addl>>})
MkArr(tuple, isTuple, rest) ==
    IF isTuple
    THEN MkRec({<<"tuple", TRUE, tuple>>, <<"additionalItems", rest # TopC, rest>>})
    ELSE MkRec({<<"items", rest # TopC, rest>>})

RECURSIVE isSubtype(_, _)
RECURSIVE MeetC(_, _)
RECURSIVE JoinC(_, _)
RECURSIVE JoinAll(_)

isSubtypeKind(k, a, b) ==
    CASE k = "number" -> NumLo(a) >= NumLo(b) /\ NumHi(a) <= NumHi(b)
      [] k = "object" ->
            /\ \A n \in (DOMAIN Props(a)) \cup (DOMAIN Props(b)) :
                   isSubtype(EffProp(a, n), EffProp(b, n))
            /\ \A p \in (DOMAIN PProps(a)) \cup (DOMAIN PProps(b)) :
                   isSubtype(EffPat(a, p), EffPat(b, p))
            /\ isSubtype(Addl(a), Addl(b))
      [] k = "array" ->
            /\ \A i \in 1..Max(TupleLen(a), TupleLen(b)) : isSubtype(Pos(a, i), Pos(b, i))
            /\ isSubtype(Rest(a), Rest(b))

\* s1_canonical.isSubtype(s2_canonical)
isSubtype(A, B) ==
    \/ B = TopC
    \/ \A k \in DOMAIN A : k \in DOMAIN B /\ isSubtypeKind(k, A[k], B[k])

MeetKind(k, a, b) ==
    CASE k = "number" -> MkNum(Max(NumLo(a), NumLo(b)), Min(NumHi(a), NumHi(b)))
      [] k = "object" ->
            MkObj([n \in (DOMAIN Props(a)) \cup (DOMAIN Props(b)) |->
                      MeetC(EffProp(a, n), EffProp(b, n))],
                  [p \in (DOMAIN PProps(a)) \cup (DOMAIN PProps(b)) |->
                      MeetC(EffPat(a, p), EffPat(b, p))],
                  MeetC(Addl(a), Addl(b)))
      [] k = "array" ->
            MkArr([i \in 1..Max(TupleLen(a), TupleLen(b)) |-> MeetC(Pos(a, i), Pos(b, i))],
                  IsTuple(a) \/ IsTuple(b),
                  MeetC(Rest(a), Rest(b)))

\* a numeric meet with an empty interval is Bottom for that kind
MeetEmpty(k, a, b) ==
    k = "number" /\ Max(NumLo(a), NumLo(b)) > Min(NumHi(a), NumHi(b))

\* s1_canonical.meet(s2_canonical)
MeetC(A, B) ==
    IF A = TopC THEN B
    ELSE IF B = TopC THEN A
    ELSE
    [k \in {x \in (DOMAIN A) \cap (DOMAIN B) : ~MeetEmpty(x, A[x], B[x])} |->
        MeetKind(k, A[k], B[k])]

JoinKind(k, a, b) ==
    CASE k = "number" -> MkNum(Min(NumLo(a), NumLo(b)), Max(NumHi(a), NumHi(b)))
      [] k = "object" ->
            LET common == (DOMAIN Props(a)) \cap (DOMAIN Props(b))
                commonPat == (DOMAIN PProps(a)) \cap (DOMAIN PProps(b))
                dropped ==
                    {Props(a)[n] : n \in (DOMAIN Props(a)) \ common}
                    \cup {Props(b)[n] : n \in (DOMAIN Props(b)) \ common}
                    \cup {PProps(a)[p] : p \in (DOMAIN PProps(a)) \ commonPat}
                    \cup {PProps(b)[p] : p \in (DOMAIN PProps(b)) \ commonPat}
            IN  MkObj([n \in common |-> JoinC(Props(a)[n], Props(b)[n])],
                      [p \in commonPat |-> JoinC(PProps(a)[p], PProps(b)[p])],
                      JoinAll(<<Addl(a), Addl(b)>> \o Listed(dropped)))
      [] k = "array" ->
            MkArr([i \in 1..Max(TupleLen(a), TupleLen(b)) |-> JoinC(Pos(a, i), Pos(b, i))],
                  IsTuple(a) \/ IsTuple(b),
                  JoinC(Rest(a), Rest(b)))

\* s1_canonical.join(s2_canonical)
JoinC(A, B) ==
    IF A = TopC \/ B = TopC THEN TopC
    ELSE
    [k \in (DOMAIN A) \cup (DOMAIN B) |->
        IF k \in DOMAIN A /\ k \in DOMAIN B THEN JoinKind(k, A[k], B[k])
        ELSE IF k \in DOMAIN A THEN A[k] ELSE B[k]]

JoinAll(cs) == IF cs = <<>> THEN BottomC ELSE JoinC(Head(cs), JoinAll(Tail(cs)))

RECURSIVE MeetAll(_)
MeetAll(cs) == IF cs = <<>> THEN TopC ELSE MeetC(Head(cs), MeetAll(Tail(cs)))

RECURSIVE canonicalize_schema(_)

\* the descriptor of kind k that the keywords of a schema document give
Descriptor(k, s) ==
    CASE k = "number" ->
            MkRec({<<"minimum", "minimum" \in DOMAIN s, Get(s, "minimum")>>,
                   <<"maximum", "maximum" \in DOMAIN s, Get(s, "maximum")>>})
      [] k = "object" ->
            LET props == GetOr(s, "properties", EmptyDict)
                pprops == GetOr(s, "patternProperties", EmptyDict)
                addl == IF "additionalProperties" \notin DOMAIN s THEN TopC
                        ELSE IF "bool" \in DOMAIN s.additionalProperties
                        THEN (IF s.additionalProperties.bool THEN TopC ELSE BottomC)
                        ELSE canonicalize_schema(s.additionalProperties)
            IN  MkObj([n \in DOMAIN props |-> canonicalize_schema(props[n])],
                      [p \in DOMAIN pprops |-> canonicalize_schema(pprops[p])],
                      addl)
      [] k = "array" ->
            IF "items" \notin DOMAIN s THEN EmptyDict
            ELSE IF IsList(s.items)
            THEN MkArr([i \in 1..Len(s.items.list) |-> canonicalize_schema(s.items.list[i])],
                       TRUE,
                       IF "additionalItems" \in DOMAIN s
                       THEN canonicalize_schema(s.additionalItems) ELSE TopC)
            ELSE MkArr(<<>>, FALSE, canonicalize_schema(s.items))

\* the part of a schema document outside its connectives
BaseC(s) ==
    IF "type" \in DOMAIN s
    THEN [k \in {s.type} |-> Descriptor(k, s)]
    ELSE [k \in Kinds |-> Descriptor(k, s)]

\* canonicalize_schema: not {} is Bottom, allOf an iterated meet, anyOf and
\* oneOf an iterated join
canonicalize_schema(s) ==
    IF "not" \in DOMAIN s THEN BottomC
    ELSE LET all == IF "allOf" \in DOMAIN s
                    THEN MeetAll([i \in 1..Len(s.allOf) |-> canonicalize_schema(s.allOf[i])])
                    ELSE TopC
             any == IF "anyOf" \in DOMAIN s
                    THEN JoinAll([i \in 1..Len(s.anyOf) |-> canonicalize_schema(s.anyOf[i])])
                    ELSE TopC
             one == IF "oneOf" \in DOMAIN s
                    THEN JoinAll([i \in 1..Len(s.oneOf) |-> canonicalize_schema(s.oneOf[i])])
                    ELSE TopC
         IN  MeetC(MeetC(BaseC(s), all), MeetC(any, one))

RECURSIVE ToSchema(_)

\* one kind's descriptor as a schema document
AtomSchema(k, d) ==
    CASE k = "number" -> Put(d, "type", "number")
      [] k = "object" ->
            MkRec({<<"type", TRUE, "object">>,
                   <<"properties", "properties" \in DOMAIN d,
                     [n \in DOMAIN Props(d) |-> ToSchema(Props(d)[n])]>>,
                   <<"patternProperties", "patternProperties" \in DOMAIN d,
                     [p \in DOMAIN PProps(d) |-> ToSchema(PProps(d)[p])]>>,
                   <<"additionalProperties", "additionalProperties" \in DOMAIN d,
                     ToSchema(Addl(d))>>})
      [] k = "array" ->
            MkRec({<<"type", TRUE, "array">>,
                   <<"items", IsTuple(d) \/ "items" \in DOMAIN d,
                     IF IsTuple(d)
                     THEN [list |-> [i \in 1..Len(d.tuple) |-> ToSchema(d.tuple[i])]]
                     ELSE ToSchema(Rest(d))>>,
                   <<"additionalItems", "additionalItems" \in DOMAIN d,
                     ToSchema(Rest(d))>>})

\* dict(result): a canonical schema as a schema document; Bottom is
\* {"not": {}} and Top is {}
ToSchema(C) ==
    IF DOMAIN C = {} THEN [not |-> EmptyDict]
    ELSE IF C = TopC THEN EmptyDict
    ELSE IF Cardinality(DOMAIN C) = 1
    THEN LET k == CHOOSE x \in DOMAIN C : TRUE IN AtomSchema(k, C[k])
    ELSE LET ks == SelectSeq(KindOrder, LAMBDA x : x \in DOMAIN C)
         IN  [anyOf |-> [i \in 1..Len(ks) |-> AtomSchema(ks[i], C[ks[i]])]]

(***************************************************************************)
(* api.py.  Every operation returns its result, the resolver singleton as  *)
(* the call leaves it, and whether it called get_instance().               *)
(***************************************************************************)
\* the structural join raises "The truth value of a bound is ambiguous":
\* an unbounded bound compared with a bounded one
AmbiguousBound(A, B) ==
    /\ DOMAIN A = {"number"} /\ DOMAIN B = {"number"}
    /\ \/ ("minimum" \in DOMAIN A["number"]) # ("minimum" \in DOMAIN B["number"])
       \/ ("maximum" \in DOMAIN A["number"]) # ("maximum" \in DOMAIN B["number"])

\* canonicalization of a schema whose references form a cycle ends in a
\* RecursionError: a "$ref" to the document's own root
RECURSIVE HasRecursiveRef(_)
HasRecursiveRef(s) ==
    \/ "$ref" \in DOMAIN s
    \/ \E n \in DOMAIN Props(s) : HasRecursiveRef(s.properties[n])
    \/ \E n \in DOMAIN PProps(s) : HasRecursiveRef(s.patternProperties[n])
    \/ "items" \in DOMAIN s /\ IsDict(s.items) /\ HasRecursiveRef(s.items)
    \/ "additionalProperties" \in DOMAIN s /\ IsDict(s.additionalProperties)
           /\ HasRecursiveRef(s.additionalProperties)

\* prepare_operands: the error it raises, "none" when it returns
prepare_operands(s1, s2) ==
    IF HasRecursiveRef(s1) THEN "UnsupportedRecursiveRef(LHS)"
    ELSE IF HasRecursiveRef(s2) THEN "UnsupportedRecursiveRef(RHS)"
    ELSE "none"

\* what an operation hands back: a boolean or a schema, the resolver
\* singleton as the call leaves it, whether get_instance() was called, and
\* the exception raised ("none" when the operation returns)
ReturnBool(result, r, used) ==
    [result |-> result, schema |-> EmptyDict, r |-> r, used |-> used, error |-> "none"]
ReturnSchema(schema, r, used) ==
    [result |-> FALSE, schema |-> schema, r |-> r, used |-> used, error |-> "none"]
Raise(error, r, used) ==
    [result |-> FALSE, schema |-> EmptyDict, r |-> r, used |-> used, error |-> error]

\* s1_canonical, s2_canonical = prepare_operands(s1, s2)
\* return s1_canonical.isSubtype(s2_canonical)
isSubschema_structural(s1, s2, r, used) ==
    IF prepare_operands(s1, s2) # "none"
    THEN Raise(prepare_operands(s1, s2), r, used)
    ELSE ReturnBool(isSubtype(canonicalize_schema(s1), canonicalize_schema(s2)), r, used)

\* if not is_semantically_compatible(s1, s2, resolver): return False
isSubschema_checked(c, s1, s2) ==
    IF ~c.ok THEN ReturnBool(FALSE, c.r, TRUE)
    ELSE isSubschema_structural(s1, s2, c.r, TRUE)

\* isSubschema without the semantic check: the structural result alone
isSubschema_structural_only(s1, s2, inst) ==
    isSubschema_structural(s1, s2, inst, FALSE)

isSubschema(s1, s2, inst) ==
    IF SEMANTIC_REASONING_ENABLED
    THEN isSubschema_checked(
             is_semantically_compatible(s1, s2, get_instance(inst, NoGraph, FALSE)), s1, s2)
    ELSE isSubschema_structural(s1, s2, inst, FALSE)

\* debug_subschema_check: prepare_operands first, then get_instance()
\* whatever the configuration, the semantic check and isSubtype
debug_subschema_check(s1, s2, inst) ==
    IF prepare_operands(s1, s2) # "none"
    THEN Raise(prepare_operands(s1, s2), inst, FALSE)
    ELSE isSubschema_checked(
             is_semantically_compatible(s1, s2, get_instance(inst, NoGraph, FALSE)), s1, s2)

\* if resolver.is_subtype_of(...): return <stype>, else the rest
Prefer(q, stype, rest(_)) ==
    IF q.result THEN [stype |-> stype, r |-> q.r] ELSE rest(q.r)

\* the meet annotation chosen as join chooses it: the broader concept
_determine_meet_semantic_type_broader(s1_stype, s2_stype, inst) ==
    IF s1_stype = s2_stype THEN [stype |-> s1_stype, r |-> inst]
    ELSE IF s1_stype = None THEN [stype |-> s2_stype, r |-> inst]
    ELSE IF s2_stype = None THEN [stype |-> s1_stype, r |-> inst]
    ELSE Prefer(is_subtype_of(get_instance(inst, NoGraph, FALSE), s1_stype, s2_stype), s2_stype,
         LAMBDA r1 :
         Prefer(is_subtype_of(r1, s2_stype, s1_stype), s1_stype,
         LAMBDA r2 : [stype |-> None, r |-> r2]))

_determine_meet_semantic_type(s1_stype, s2_stype, inst) ==
    IF s1_stype = s2_stype THEN [stype |-> s1_stype, r |-> inst]
    ELSE IF s1_stype = None THEN [stype |-> s2_stype, r |-> inst]
    ELSE IF s2_stype = None THEN [stype |-> s1_stype, r |-> inst]
    ELSE Prefer(is_subtype_of(get_instance(inst, NoGraph, FALSE), s1_stype, s2_stype), s1_stype,
         LAMBDA r1 :
         Prefer(is_subtype_of(r1, s2_stype, s1_stype), s2_stype,
         LAMBDA r2 : [stype |-> None, r |-> r2]))

\* the join annotation with meet's rule for a missing annotation: the
\* annotation of the one operand that has it
_determine_join_semantic_type_one_sided(s1_stype, s2_stype, inst) ==
    IF s1_stype = s2_stype THEN [stype |-> s1_stype, r |-> inst]
    ELSE IF s1_stype = None THEN [stype |-> s2_stype, r |-> inst]
    ELSE IF s2_stype = None THEN [stype |-> s1_stype, r |-> inst]
    ELSE Prefer(is_subtype_of(get_instance(inst, NoGraph, FALSE), s1_stype, s2_stype), s2_stype,
         LAMBDA r1 :
         Prefer(is_subtype_of(r1, s2_stype, s1_stype), s1_stype,
         LAMBDA r2 : [stype |-> None, r |-> r2]))

_determine_join_semantic_type(s1_stype, s2_stype, inst) ==
    IF s1_stype = s2_stype THEN [stype |-> s1_stype, r |-> inst]
    ELSE IF s1_stype = None \/ s2_stype = None THEN [stype |-> None, r |-> inst]
    ELSE Prefer(is_subtype_of(get_instance(inst, NoGraph, FALSE), s1_stype, s2_stype), s2_stype,
         LAMBDA r1 :
         Prefer(is_subtype_of(r1, s2_stype, s1_stype), s1_stype,
         LAMBDA r2 : [stype |-> None, r |-> r2]))

\* result_dict = dict(result); result_dict['stype'] = result_stype
WithStype(schema, result_stype) ==
    IF result_stype # None THEN Put(schema, "stype", result_stype) ELSE schema

Bottom == [not |-> EmptyDict]

\* s1_canonical, s2_canonical = prepare_operands(s1, s2)
\* result = s1_canonical.meet(s2_canonical), with result_stype applied
meet_structural(s1, s2, d, used) ==
    IF prepare_operands(s1, s2) # "none"
    THEN Raise(prepare_operands(s1, s2), d.r, used)
    ELSE ReturnSchema(
             WithStype(ToSchema(MeetC(canonicalize_schema(s1), canonicalize_schema(s2))),
                       d.stype),
             d.r, used)

\* result_stype = None
\* if config.SEMANTIC_REASONING_ENABLED and (s1_stype or s2_stype): ...
meet_annotated(s1, s2, r) ==
    meet_structural(s1, s2,
        IF SEMANTIC_REASONING_ENABLED
              /\ (TruthyStr(Get(s1, "stype")) \/ TruthyStr(Get(s2, "stype")))
        THEN _determine_meet_semantic_type(Get(s1, "stype"), Get(s2, "stype"), r)
        ELSE [stype |-> None, r |-> r],
        SEMANTIC_REASONING_ENABLED)

\* if not is_semantically_compatible(s1, s2, resolver): return {"not": {}}
meet_checked(c, s1, s2) ==
    IF ~c.ok THEN ReturnSchema(Bottom, c.r, TRUE)
    ELSE meet_annotated(s1, s2, c.r)

\* meet with the annotation chosen whatever the configuration flag says
meet_annotating_when_disabled(s1, s2, inst) ==
    IF SEMANTIC_REASONING_ENABLED
    THEN meet_checked(is_semantically_compatible(s1, s2, get_instance(inst, NoGraph, FALSE)), s1, s2)
    ELSE meet_structural(s1, s2,
             IF TruthyStr(Get(s1, "stype")) \/ TruthyStr(Get(s2, "stype"))
             THEN _determine_meet_semantic_type(Get(s1, "stype"), Get(s2, "stype"), inst)
             ELSE [stype |-> None, r |-> inst],
             SEMANTIC_REASONING_ENABLED)

\* meet without "if not is_semantically_compatible(...): return {"not": {}}"
meet_without_semantic_check(s1, s2, inst) ==
    meet_annotated(s1, s2, inst)

meet(s1, s2, inst) ==
    IF SEMANTIC_REASONING_ENABLED
    THEN meet_checked(is_semantically_compatible(s1, s2, get_instance(inst, NoGraph, FALSE)), s1, s2)
    ELSE meet_annotated(s1, s2, inst)

\* the manual result of the ambiguous-bound case
ManualJoin(A, B) ==
    [type |-> "number",
     minimum |-> Min(NumLo(A["number"]), NumLo(B["number"])),
     maximum |-> Max(NumHi(A["number"]), NumHi(B["number"]))]

\* try: result = s1_canonical.join(s2_canonical) except ValueError: manual_result
join_result(s1_canonical, s2_canonical) ==
    IF AmbiguousBound(s1_canonical, s2_canonical)
    THEN ManualJoin(s1_canonical, s2_canonical)
    ELSE ToSchema(JoinC(s1_canonical, s2_canonical))

\* s1_canonical, s2_canonical = prepare_operands(s1, s2) and the rest of join
join_structural(s1, s2, d, used) ==
    IF prepare_operands(s1, s2) # "none"
    THEN Raise(prepare_operands(s1, s2), d.r, used)
    ELSE ReturnSchema(
             WithStype(join_result(canonicalize_schema(s1), canonicalize_schema(s2)),
                       d.stype),
             d.r, used)

\* _determine_join_semantic_type reaches get_instance() only for two
\* different annotations
join(s1, s2, inst) ==
    LET s1_stype == Get(s1, "stype")
        s2_stype == Get(s2, "stype")
        determine == SEMANTIC_REASONING_ENABLED
                         /\ (TruthyStr(s1_stype) \/ TruthyStr(s2_stype))
    IN  join_structural(s1, s2,
            IF determine
            THEN _determine_join_semantic_type(s1_stype, s2_stype, inst)
            ELSE [stype |-> None, r |-> inst],
            determine /\ s1_stype # s2_stype /\ s1_stype # None /\ s2_stype # None)

Used(o, used) == [o EXCEPT !.used = o.used \/ used]

\* return isSubschema(s1, s2) and isSubschema(s2, s1)
AndReverse(a, s1, s2) ==
    IF a.error # "none" \/ ~a.result THEN a
    ELSE Used(isSubschema(s2, s1, a.r), a.used)

BothSubschema(s1, s2, inst) == AndReverse(isSubschema(s1, s2, inst), s1, s2)

\* "if not <check>: return False", then the rest of isEquivalent
Unless(c, rest(_)) == IF ~c.ok THEN ReturnBool(FALSE, c.r, TRUE) ELSE rest(c.r)

\* isEquivalent that ends in "return isSubschema(s1, s2)"
isEquivalent_one_direction(s1, s2, inst) ==
    IF ~SEMANTIC_REASONING_ENABLED THEN isSubschema(s1, s2, inst)
    ELSE LET s1_stype == Get(s1, "stype")
             s2_stype == Get(s2, "stype")
         IN  Unless(is_semantically_compatible(s1, s2, get_instance(inst, NoGraph, FALSE)), LAMBDA r1 :
             Unless(is_semantically_compatible(s2, s1, r1), LAMBDA r2 :
             IF (s1_stype = None) # (s2_stype = None) THEN ReturnBool(FALSE, r2, TRUE)
             ELSE IF s1_stype # None /\ s2_stype # None
             THEN Unless(Answer(is_subtype_of(r2, s1_stype, s2_stype)), LAMBDA r3 :
                  Unless(Answer(is_subtype_of(r3, s2_stype, s1_stype)), LAMBDA r4 :
                  Used(isSubschema(s1, s2, r4), TRUE)))
             ELSE Used(isSubschema(s1, s2, r2), TRUE)))

isEquivalent(s1, s2, inst) ==
    IF ~SEMANTIC_REASONING_ENABLED THEN BothSubschema(s1, s2, inst)
    ELSE LET s1_stype == Get(s1, "stype")
             s2_stype == Get(s2, "stype")
         IN  Unless(is_semantically_compatible(s1, s2, get_instance(inst, NoGraph, FALSE)), LAMBDA r1 :
             Unless(is_semantically_compatible(s2, s1, r1), LAMBDA r2 :
             IF (s1_stype = None) # (s2_stype = None) THEN ReturnBool(FALSE, r2, TRUE)
             ELSE IF s1_stype # None /\ s2_stype # None
             THEN Unless(Answer(is_subtype_of(r2, s1_stype, s2_stype)), LAMBDA r3 :
                  Unless(Answer(is_subtype_of(r3, s2_stype, s1_stype)), LAMBDA r4 :
                  Used(BothSubschema(s1, s2, r4), TRUE)))
             ELSE Used(BothSubschema(s1, s2, r2), TRUE)))

(***************************************************************************)
(* The inputs: concept identifiers, graphs and schema documents.           *)
(***************************************************************************)
Temperature == <<"quantitykind", ":", "Temperature">>
TemperatureIRI == <<"http://", "qudt.org/vocab/quantitykind/", "Temperature">>
Pressure == <<"quantitykind", ":", "Pressure">>
Thermodynamic == <<"quantitykind", ":", "ThermodynamicTemperature">>
\* an identifier with a space in its local name
Spaced == <<"http://", "example.org/", "my type">>

Triple(narrower, predicate, broader) ==
    <<normalize_iri(narrower), predicate, normalize_iri(broader)>>

\* the graph of the resolver created with lazy_load=True
LazyGraph == {Triple(Temperature, broader_prop, Thermodynamic)}

\* the graph objects a caller has made, by identity, with the triples each
\* starts with: no relation; one broader edge; a chain of a broader and a
\* subClassOf edge; two concepts each broader than the other.  A resolver
\* that holds one changes it in place.
UserGraphs ==
    [id \in {"g1", "g2", "g3", "g4"} |->
        CASE id = "g1" -> {}
          [] id = "g2" -> LazyGraph
          [] id = "g3" -> {Triple(Temperature, broader_prop, Thermodynamic),
                           Triple(Thermodynamic, subclass_prop, Pressure),
                           Triple(Spaced, broader_prop, Thermodynamic)}
          [] id = "g4" -> {Triple(Temperature, broader_prop, Thermodynamic),
                           Triple(Thermodynamic, broader_prop, Temperature)}]

Number == [type |-> "number"]
Annotated(s, stype) == Put(s, "stype", stype)
Inner == {Number, Annotated(Number, Temperature), Annotated(Number, Pressure)}
Untyped == {[stype |-> Temperature], [stype |-> Pressure]}

Leaves ==
    Inner \cup {Annotated(Number, Thermodynamic), Annotated(Number, TemperatureIRI)}
Ranged ==
    {[type |-> "number", minimum |-> 0, maximum |-> MaxNum],
     [type |-> "number", minimum |-> 1, maximum |-> MaxNum - 1],
     [type |-> "number", minimum |-> 1, maximum |-> MaxNum - 1, stype |-> Temperature],
     [type |-> "number", minimum |-> 1]}

Object(i) == [type |-> "object", properties |-> [x |-> i]]
Array(i) == [type |-> "array", items |-> i]
TupleArray(i) == [type |-> "array", items |-> [list |-> <<i>>]]
Additional(i) == [type |-> "object", additionalProperties |-> i]
Pattern(i) == [type |-> "object", patternProperties |-> [p \in {"^p"} |-> i]]
Branches == {<<Annotated(Number, Temperature)>>, <<Annotated(Number, Pressure)>>,
             <<Annotated(Number, Temperature), Annotated(Number, Pressure)>>}

\* a schema that refers to itself: {"type": "object", "properties": {"x": {"$ref": "#"}}}
Recursive == Object([k \in {"$ref"} |-> "#"])

\* the operands of debug_subschema_check
DebugSchemas == Inner \cup {Recursive}

\* the operands of isSubschema, isEquivalent, meet and join
Schemas ==
    Leaves \cup Ranged
    \cup {Object(i) : i \in Inner} \cup {Array(i) : i \in Inner}
    \cup {[anyOf |-> b] : b \in Branches}
    \cup {EmptyDict, Recursive}
    \cup {Object(i) : i \in Untyped} \cup {[type |-> "object"]}
    \cup {TupleArray(i) : i \in Inner}
    \cup {Additional(i) : i \in Inner} \cup {Pattern(i) : i \in Inner}
    \cup {Object(Array(i)) : i \in Inner}
    \cup {[allOf |-> b] : b \in Branches} \cup {[oneOf |-> b] : b \in Branches}

\* the operands of is_semantically_compatible: every position the check
\* descends into, with the empty schema, a second property name, a second
\* pattern, tuples of two lengths, a boolean additionalProperties and items
\* that hold additionalItems
Inner4 == Inner \cup {EmptyDict}
\* objects with two property names and with two patterns, so that two
\* operands share two and the order they are walked in shows
TwoProperties(a, b) ==
    [type |-> "object",
     properties |-> [x |-> Annotated(Number, a), y |-> Annotated(Number, b)]]
TwoPatterns(a, b) ==
    [type |-> "object",
     patternProperties |->
         [p \in {"^p", "^q"} |-> Annotated(Number, IF p = "^p" THEN a ELSE b)]]
NestedSchemas ==
    Inner4
    \cup {Object(i) : i \in Inner4}
    \cup {[type |-> "object", properties |-> [y |-> Annotated(Number, Temperature)]]}
    \cup {TwoProperties(Temperature, Temperature), TwoProperties(Pressure, Thermodynamic)}
    \cup {TwoPatterns(Temperature, Temperature), TwoPatterns(Pressure, Thermodynamic)}
    \cup {Array(i) : i \in Inner4}
    \cup {TupleArray(i) : i \in Inner}
    \cup {[type |-> "array",
           items |-> [list |-> <<Annotated(Number, Pressure),
                                 Annotated(Number, Temperature)>>]]}
    \cup {Additional(i) : i \in Inner4}
    \cup {[type |-> "object", additionalProperties |-> [bool |-> FALSE]]}
    \cup {Pattern(i) : i \in Inner}
    \cup {[type |-> "object",
           patternProperties |-> [p \in {"^q"} |-> Annotated(Number, Temperature)]]}
    \cup {[allOf |-> b] : b \in Branches} \cup {[anyOf |-> b] : b \in Branches}
    \cup {[oneOf |-> b] : b \in Branches}
    \cup {Object(Array(i)) : i \in Inner}
    \cup {Array([additionalItems |-> Annotated(Number, Temperature)]),
          Array([additionalItems |-> Annotated(Number, Temperature),
                 items |-> [list |-> <<Number>>]]),
          Array([additionalItems |-> [bool |-> FALSE], items |-> [list |-> <<Number>>]])}

(***************************************************************************)
(* The inputs of the operations on the resolver.                           *)
(***************************************************************************)
SkosConcept == <<"skos", ":", "Concept">>
Unknown == <<"unknown", ":", "Concept">>

\* the identifiers given to is_subtype_of
Identifiers == {Temperature, TemperatureIRI, Pressure, Unknown, SkosConcept}

\* the values given to normalize_iri
Values ==
    Identifiers
    \cup {None, <<>>, Thermodynamic,
          <<"https://", "example.org/", "T">>,
          <<"ex", ":", "a", ":", "b">>,
          <<"foaf", ":", "Person">>,
          <<"Temperature">>,
          <<":", "Temperature">>}

\* the caller's graph objects after an operation that left the resolver r:
\* the object r holds has the triples r.graph
Held(h, r) ==
    IF r.live /\ r.graph_id \in DOMAIN h THEN [h EXCEPT ![r.graph_id] = r.graph] ELSE h

\* the graph arguments of get_instance: none, or one of the caller's graph
\* objects with the triples it holds now
GraphArguments ==
    {NoGraph} \cup {GraphObject(id, heap[id]) : id \in DOMAIN heap}

\* the namespaces of the identifiers and what the network holds for them
QudtNamespace == <<"http://", "qudt.org/vocab/quantitykind/">>
SkosNamespace == <<"http://", "www.w3.org/2004/02/skos/core#">>
RootNamespace == <<"/">>
Namespaces == {QudtNamespace, SkosNamespace, RootNamespace}

\* cli.load_ontology: ontology_urls, and ontology_name.lower() of the names
\* given to it
ontology_urls ==
    [n \in {<<"qudt">>, <<"foaf">>, <<"skos">>} |->
        CASE n = <<"qudt">> -> <<"https://", "qudt.org/vocab/quantitykind/">>
          [] n = <<"foaf">> -> <<"http://", "xmlns.com/foaf/0.1/">>
          [] n = <<"skos">> -> <<"http://", "www.w3.org/2004/02/skos/core#">>]
OntologyNames == {<<"qudt">>, <<"QUDT">>, <<"skos">>, <<"foaf">>, <<"rdf">>}
lower(ontology_name) == IF ontology_name = <<"QUDT">> THEN <<"qudt">> ELSE ontology_name
Locations == Namespaces \cup {ontology_urls[n] : n \in DOMAIN ontology_urls}

QudtOntology ==
    {Triple(Temperature, broader_prop, Thermodynamic),
     Triple(Thermodynamic, subclass_prop, Pressure)}

\* every fetch fails
Offline == [n \in Locations |-> Failed]
\* the quantitykind vocabulary loads, the skos and foaf vocabularies load
\* no triple
Online ==
    [n \in Locations |->
        CASE n \in {QudtNamespace, ontology_urls[<<"qudt">>]} -> Loaded(QudtOntology)
          [] n \in {SkosNamespace, ontology_urls[<<"foaf">>]} -> Loaded({})
          [] OTHER -> Failed]
Networks == {Offline, Online}

\* the relationships given to add_test_relationship
TestRelationships == {<<Pressure, Temperature>>, <<Thermodynamic, Pressure>>}

\* the triples a caller parses into the graph the resolver holds
ParsedData == {{Triple(Temperature, subclass_prop, Pressure)}}

(***************************************************************************)
(* The state machine.                                                      *)
(***************************************************************************)
\* the threads that share the resolver; a thread is outside every method
\* or at a statement of one, holding the method's local variables: the
\* identifier it loads (loading), the normalized identifiers, what
\* _test_transitive_support returned (supported), the result it computed
\* and the exception its last call raised (error)
Threads == {"t1", "t2"}
Idle ==
    [pc |-> "idle", loading |-> "none", narrower_iri |-> None, broader_iri |-> None,
     supported |-> "None", result |-> FALSE, error |-> "none"]
NoThreads == [t \in Threads |-> Idle]

NoQuery ==
    [op |-> "none", narrower |-> None, broader |-> None, graph |-> NoGraph,
     lazy_load |-> FALSE, result |-> FALSE, value |-> None, before |-> NoInstance]

NoCall ==
    [op |-> "none", s1 |-> EmptyDict, s2 |-> EmptyDict,
     result |-> FALSE, schema |-> EmptyDict, used |-> FALSE, error |-> "none"]

Init ==
    /\ SEMANTIC_REASONING_ENABLED = TRUE
    /\ instance \in {NoInstance}
                     \cup {NewResolver(IF UserGraphs[id] = {} THEN NoGraph
                                       ELSE GraphObject(id, UserGraphs[id]),
                                       FALSE) : id \in DOMAIN UserGraphs}
                     \cup {NewResolver(GraphObject("g2", LazyGraph), TRUE)}
    /\ backend_transitive \in BOOLEAN
    /\ network = Offline
    /\ call = NoCall
    /\ ncalls = 0
    /\ query = NoQuery
    /\ nqueries = 0
    /\ threads = NoThreads
    /\ order = FirstOrder
    /\ heap = UserGraphs

\* config.set_semantic_reasoning(enabled)
SetSemanticReasoning ==
    /\ \E enabled \in BOOLEAN : SEMANTIC_REASONING_ENABLED' = enabled
    /\ call' = NoCall
    /\ query' = NoQuery
    /\ UNCHANGED <<instance, backend_transitive, network, ncalls, nqueries, threads,
                   order, heap>>

\* the operation returns (or raises): the singleton is as the call left it
Returns(op, s1, s2, o) ==
    /\ instance' = Settled(o.r)
    /\ heap' = Held(heap, o.r)
    /\ call' = [op |-> op, s1 |-> s1, s2 |-> s2, result |-> o.result,
                schema |-> o.schema, used |-> o.used, error |-> o.error]
    /\ ncalls' = ncalls + 1
    /\ order' = FirstOrder
    /\ UNCHANGED <<SEMANTIC_REASONING_ENABLED, backend_transitive, network,
                   query, nqueries, threads>>

\* the process and the store settle the orders the next operation walks its
\* sets in: the hash order of set(...) & set(...), the order graph.objects
\* yields
DrawOrder ==
    /\ call.op = "none"
    /\ query.op = "none"
    /\ ncalls < MaxCalls
    /\ \/ nqueries < MaxQueries /\ \A t \in DOMAIN threads : threads[t].pc = "idle"
       \/ \E t \in DOMAIN threads : threads[t].pc = "query"
    /\ order = FirstOrder
    /\ \E o \in PairOrders \ {FirstOrder} : order' = o
    /\ UNCHANGED <<SEMANTIC_REASONING_ENABLED, instance, backend_transitive, network,
                   call, ncalls, query, nqueries, threads, heap>>

IsSubschemaCall ==
    /\ ncalls < MaxCalls
    /\ call.op = "none"
    /\ \E s1 \in Schemas, s2 \in Schemas :
          Returns("isSubschema", s1, s2, isSubschema(s1, s2, instance))

IsEquivalentCall ==
    /\ ncalls < MaxCalls
    /\ call.op = "none"
    /\ \E s1 \in Schemas, s2 \in Schemas :
          Returns("isEquivalent", s1, s2, isEquivalent(s1, s2, instance))

MeetCall ==
    /\ ncalls < MaxCalls
    /\ call.op = "none"
    /\ \E s1 \in Schemas, s2 \in Schemas :
          Returns("meet", s1, s2, meet(s1, s2, instance))

JoinCall ==
    /\ ncalls < MaxCalls
    /\ call.op = "none"
    /\ \E s1 \in Schemas, s2 \in Schemas :
          Returns("join", s1, s2, join(s1, s2, instance))

\* debug_subschema_check(s1, s2)
DebugSubschemaCheckCall ==
    /\ ncalls < MaxCalls
    /\ call.op = "none"
    /\ \E s1 \in DebugSchemas, s2 \in DebugSchemas :
          Returns("debug_subschema_check", s1, s2,
                  debug_subschema_check(s1, s2, instance))

Next ==
    \/ SetSemanticReasoning
    \/ DrawOrder
    \/ IsSubschemaCall
    \/ DebugSubschemaCheckCall
    \/ IsEquivalentCall
    \/ MeetCall
    \/ JoinCall

Spec == Init /\ [][Next]_vars

(***************************************************************************)
(* The resolver used directly: get_instance, reset_instance,               *)
(* is_subtype_of, add_test_relationship, normalize_iri, and a caller that  *)
(* parses data into the graph the resolver holds.                          *)
(***************************************************************************)
ResolverInit ==
    /\ SEMANTIC_REASONING_ENABLED = TRUE
    /\ instance = NoInstance
    /\ backend_transitive \in BOOLEAN
    /\ network \in Networks
    /\ call = NoCall
    /\ ncalls = 0
    /\ query = NoQuery
    /\ nqueries = 0
    /\ threads = NoThreads
    /\ order = FirstOrder
    /\ heap = UserGraphs

\* the operation returns: the singleton is as it left it, query holds its
\* arguments, what it returned and the singleton as it found it
Answers(op, narrower, broader, graph, lazy_load, result, value, r) ==
    /\ instance' = r
    /\ heap' = Held(heap, r)
    /\ query' = [op |-> op, narrower |-> narrower, broader |-> broader,
                 graph |-> graph, lazy_load |-> lazy_load, result |-> result,
                 value |-> value, before |-> instance]
    /\ nqueries' = nqueries + 1
    /\ order' = FirstOrder
    /\ UNCHANGED <<SEMANTIC_REASONING_ENABLED, backend_transitive, network,
                   call, ncalls, threads>>

\* SemanticTypeResolver.get_instance(graph=graph, lazy_load=lazy_load)
GetInstanceCall ==
    /\ nqueries < MaxQueries
    /\ query.op = "none"
    /\ \E graph \in GraphArguments, lazy_load \in BOOLEAN :
          Answers("get_instance", None, None, graph, lazy_load, FALSE, None,
                  get_instance(instance, graph, lazy_load))

\* SemanticTypeResolver.reset_instance()
ResetInstanceCall ==
    /\ nqueries < MaxQueries
    /\ query.op = "none"
    /\ Answers("reset_instance", None, None, NoGraph, FALSE, FALSE, None, NoInstance)

IsSubtypeOfAnswers(narrower, broader, o) ==
    Answers("is_subtype_of", narrower, broader, NoGraph, FALSE, o.result, None, o.r)

\* resolver.is_subtype_of(narrower, broader) on the current instance
IsSubtypeOfCall ==
    /\ nqueries < MaxQueries
    /\ query.op = "none"
    /\ instance.live
    /\ \E narrower \in Identifiers \cup {Spaced}, broader \in Identifiers :
          IsSubtypeOfAnswers(narrower, broader,
                             is_subtype_of(instance, narrower, broader))

\* resolver.add_test_relationship(narrower, broader)
AddTestRelationshipCall ==
    /\ nqueries < MaxQueries
    /\ query.op = "none"
    /\ instance.live
    /\ \E pair \in TestRelationships :
          Answers("add_test_relationship", pair[1], pair[2], NoGraph, FALSE, FALSE,
                  None, add_test_relationship(instance, pair[1], pair[2]))

\* resolver.graph.parse(data=...): triples merged into the graph object the
\* resolver holds, by a caller
ParseIntoGraph ==
    /\ nqueries < MaxQueries
    /\ query.op = "none"
    /\ instance.live
    /\ \E data \in ParsedData :
          Answers("parse", None, None, GraphObject(instance.graph_id, data), FALSE,
                  FALSE, None, [instance EXCEPT !.graph = @ \cup data])

\* cli.load_ontology(ontology_name, graph): False for a name that is not in
\* ontology_urls and for a parse that raises, otherwise the vocabulary
\* parsed into the graph and True
load_ontology(ontology_name, triples) ==
    IF lower(ontology_name) \notin DOMAIN ontology_urls
    THEN [result |-> FALSE, triples |-> triples]
    ELSE LET parsed == Parse(ontology_urls[lower(ontology_name)])
         IN  IF parsed.ok
             THEN [result |-> TRUE, triples |-> triples \cup parsed.triples]
             ELSE [result |-> FALSE, triples |-> triples]

\* the graph objects a caller can hand to load_ontology: its own, and
\* resolver.graph of a resolver that made its graph itself
LoadTargets == DOMAIN heap \cup (IF instance.live /\ instance.graph_id = "own" THEN {"own"} ELSE {})
TriplesOf(id) == IF id \in DOMAIN heap THEN heap[id] ELSE instance.graph

\* load_ontology(ontology_name, graph) by a caller: the graph object grows,
\* and with it the graph of the resolver that holds this object; the
\* resolver's cache, flag and fetched namespaces stay as they are
LoadOntologyCall ==
    /\ nqueries < MaxQueries
    /\ query.op = "none"
    /\ \E ontology_name \in OntologyNames, id \in LoadTargets :
          LET o == load_ontology(ontology_name, TriplesOf(id))
          IN  /\ instance' = IF instance.live /\ instance.graph_id = id
                              THEN [instance EXCEPT !.graph = o.triples]
                              ELSE instance
              /\ heap' = IF id \in DOMAIN heap THEN [heap EXCEPT ![id] = o.triples]
                         ELSE heap
              /\ query' = [op |-> "load_ontology", narrower |-> ontology_name,
                           broader |-> None, graph |-> GraphObject(id, TriplesOf(id)),
                           lazy_load |-> FALSE, result |-> o.result, value |-> None,
                           before |-> instance]
    /\ nqueries' = nqueries + 1
    /\ order' = FirstOrder
    /\ UNCHANGED <<SEMANTIC_REASONING_ENABLED, backend_transitive, network,
                   call, ncalls, threads>>

\* normalize_iri(stype_value)
NormalizeIriCall ==
    /\ nqueries < MaxQueries
    /\ query.op = "none"
    /\ \E stype_value \in Values :
          Answers("normalize_iri", stype_value, None, NoGraph, FALSE, FALSE,
                  normalize_iri(stype_value), instance)

ResolverNext ==
    \/ SetSemanticReasoning
    \/ DrawOrder
    \/ GetInstanceCall
    \/ ResetInstanceCall
    \/ IsSubtypeOfCall
    \/ AddTestRelationshipCall
    \/ ParseIntoGraph
    \/ LoadOntologyCall
    \/ NormalizeIriCall

ResolverSpec == ResolverInit /\ [][ResolverNext]_vars

(***************************************************************************)
(* The semantic check called directly: is_semantically_compatible(s1, s2). *)
(***************************************************************************)
IsSemanticallyCompatibleCall ==
    /\ ncalls < MaxCalls
    /\ call.op = "none"
    /\ \E s1 \in NestedSchemas, s2 \in NestedSchemas :
          Returns("is_semantically_compatible", s1, s2,
                  is_semantically_compatible_call(s1, s2, instance))

CheckerNext ==
    \/ SetSemanticReasoning
    \/ DrawOrder
    \/ IsSemanticallyCompatibleCall

CheckerSpec == Init /\ [][CheckerNext]_vars

(***************************************************************************)
(* Threads that share one resolver.  A thread switch can fall between any  *)
(* two statements.  A step of a thread here is one statement that reads or *)
(* writes the resolver, with the statements on locals around it:           *)
(*   is_subtype_of          the tests up to the test of the cache          *)
(*                          (152-170); the read of the cached value, which *)
(*                          raises KeyError for a key cleared since (171)  *)
(*   _lazy_load_semantic_.. the test of the graph (181, 183 with 91); the  *)
(*                          test of fetched_namespaces (95-100); the call  *)
(*                          of graph.parse (104-106); graph.parse returns  *)
(*                          or raises (106); fetched_namespaces.add (110); *)
(*                          relation_cache.clear (111); the flag reset     *)
(*                          (112); fetched_namespaces.add on failure (117) *)
(*   _test_transitive_su..  the test of the flag (124); the test query and *)
(*                          the flag's assignment (136-140); the return of *)
(*                          the flag (125, 144)                            *)
(*   is_subtype_of          the query (190-192); the cache insert (195)    *)
(*   add_test_relationship  graph.add (267); relation_cache.clear (271)    *)
(***************************************************************************)
ConcurrentInit ==
    /\ SEMANTIC_REASONING_ENABLED = TRUE
    /\ instance \in {NewResolver(GraphObject(id, UserGraphs[id]), lazy_load) :
                         id \in DOMAIN UserGraphs, lazy_load \in BOOLEAN}
    /\ backend_transitive \in BOOLEAN
    /\ network \in Networks
    /\ call = NoCall
    /\ ncalls = 0
    /\ query = NoQuery
    /\ nqueries = 0
    /\ threads = NoThreads
    /\ order = FirstOrder
    /\ heap = UserGraphs

\* the query goes past the configuration test and the identity test
ReachesCache(narrower, broader) ==
    /\ SEMANTIC_REASONING_ENABLED
    /\ normalize_iri(narrower) # normalize_iri(broader)

\* thread t goes on as th; the resolver is r
ThreadAt(t, th, r) ==
    /\ instance' = r
    /\ heap' = Held(heap, r)
    /\ threads' = [threads EXCEPT ![t] = th]
    /\ UNCHANGED <<SEMANTIC_REASONING_ENABLED, backend_transitive, network,
                   call, ncalls, query, nqueries, order>>

\* a thread at another statement
At(th, pc) == [th EXCEPT !.pc = pc]

\* where a thread goes on after the lazy load of an identifier: the broader
\* identifier after the narrower one (183), then the capability test (189)
AfterLoad(th) ==
    IF th.loading = "narrower"
    THEN [th EXCEPT !.pc = "load", !.loading = "broader"]
    ELSE [th EXCEPT !.pc = "test", !.loading = "none"]

\* the identifier a thread is about to load, or loads, and its namespace
Loading(th) == IF th.loading = "narrower" THEN th.narrower_iri ELSE th.broader_iri
LoadingNamespace(th) == _extract_namespace(Loading(th))

\* the queries of the threads: a pair with no path, a pair of two
\* namespaces, the pair reversed, two spellings of one identifier
ThreadQueries ==
    {<<Pressure, Temperature>>, <<Pressure, SkosConcept>>,
     <<Temperature, Pressure>>, <<Temperature, TemperatureIRI>>}

\* a thread runs is_subtype_of up to the test of the cache (lines 152-170);
\* a call that returns at the configuration test or the identity test
\* returns here
IsSubtypeOfQuery ==
    \E t \in Threads, q \in ThreadQueries :
        /\ nqueries < MaxQueries
        /\ threads[t].pc = "idle"
        /\ IF ReachesCache(q[1], q[2])
           THEN /\ threads' = [threads EXCEPT ![t] =
                       [Idle EXCEPT !.pc = IF <<normalize_iri(q[1]), normalize_iri(q[2])>>
                                                 \in DOMAIN instance.relation_cache
                                             THEN "hit"
                                             ELSE IF instance.lazy_load THEN "load"
                                             ELSE "test",
                                    !.loading = IF <<normalize_iri(q[1]), normalize_iri(q[2])>>
                                                      \notin DOMAIN instance.relation_cache
                                                   /\ instance.lazy_load
                                                THEN "narrower" ELSE "none",
                                    !.narrower_iri = normalize_iri(q[1]),
                                    !.broader_iri = normalize_iri(q[2])]]
                /\ UNCHANGED <<instance, heap>>
           ELSE /\ instance' = is_subtype_of(instance, q[1], q[2]).r
                /\ threads' = [threads EXCEPT ![t] = Idle]
                /\ UNCHANGED heap
        /\ nqueries' = nqueries + 1
        /\ UNCHANGED <<SEMANTIC_REASONING_ENABLED, backend_transitive, network,
                       call, ncalls, query, order>>

\* return self.relation_cache[cache_key], line 171: the value cached now,
\* or KeyError when another thread has cleared the cache since line 170
IsSubtypeOfCacheRead ==
    \E t \in Threads :
        /\ threads[t].pc = "hit"
        /\ IF <<threads[t].narrower_iri, threads[t].broader_iri>>
                  \in DOMAIN instance.relation_cache
           THEN ThreadAt(t, Idle, instance)
           ELSE ThreadAt(t, [Idle EXCEPT !.error = "KeyError"], instance)

\* if not self._type_exists_in_graph(ref), lines 181 and 183 with 91: the
\* thread goes on to the next identifier or enters
\* _lazy_load_semantic_type
LazyLoadStarts ==
    \E t \in Threads :
        /\ threads[t].pc = "load"
        /\ IF _type_exists_in_graph(instance.graph, Loading(threads[t]))
           THEN ThreadAt(t, AfterLoad(threads[t]), instance)
           ELSE ThreadAt(t, At(threads[t], "entered"), instance)

\* _lazy_load_semantic_type, lines 95-100: if namespace in
\* self.fetched_namespaces: return False
LazyLoadTestsFetched ==
    \E t \in Threads :
        /\ threads[t].pc = "entered"
        /\ IF LoadingNamespace(threads[t]) \in instance.fetched_namespaces
           THEN ThreadAt(t, AfterLoad(threads[t]), instance)
           ELSE ThreadAt(t, At(threads[t], "calling"), instance)

\* lines 104-106: the namespace printed, self.graph.parse(namespace) called;
\* the thread waits for the network
LazyLoadCallsParse ==
    \E t \in Threads :
        /\ threads[t].pc = "calling"
        /\ ThreadAt(t, At(threads[t], "parsing"),
                    [instance EXCEPT !.fetch_log =
                         Append(@, LoadingNamespace(threads[t]))])

\* self.graph.parse(namespace) returns, the triples in the graph, or raises
\* in a thread that waited
LazyLoadReturns ==
    \E t \in Threads :
        /\ threads[t].pc = "parsing"
        /\ IF Parse(LoadingNamespace(threads[t])).ok
           THEN ThreadAt(t, At(threads[t], "recording"),
                         [instance EXCEPT !.graph =
                              @ \cup Parse(LoadingNamespace(threads[t])).triples])
           ELSE ThreadAt(t, At(threads[t], "failed"), instance)

\* self.fetched_namespaces.add(namespace), line 110
LazyLoadRecords ==
    \E t \in Threads :
        /\ threads[t].pc = "recording"
        /\ ThreadAt(t, At(threads[t], "clearing"),
                    [instance EXCEPT !.fetched_namespaces =
                         @ \cup {LoadingNamespace(threads[t])}])

\* self.relation_cache.clear(), line 111
LazyLoadClears ==
    \E t \in Threads :
        /\ threads[t].pc = "clearing"
        /\ ThreadAt(t, At(threads[t], "resetting"),
                    [instance EXCEPT !.relation_cache = [k \in {} |-> TRUE]])

\* self.supports_transitive_queries = None; return True, lines 112-113
LazyLoadResets ==
    \E t \in Threads :
        /\ threads[t].pc = "resetting"
        /\ ThreadAt(t, AfterLoad(threads[t]),
                    [instance EXCEPT !.supports_transitive_queries = "None"])

\* except Exception: self.fetched_namespaces.add(namespace); return False
LazyLoadFails ==
    \E t \in Threads :
        /\ threads[t].pc = "failed"
        /\ ThreadAt(t, AfterLoad(threads[t]),
                    [instance EXCEPT !.fetched_namespaces =
                         @ \cup {LoadingNamespace(threads[t])}])

\* _test_transitive_support, line 124: if self.supports_transitive_queries
\* is not None
TestTransitiveSupport ==
    \E t \in Threads :
        /\ threads[t].pc = "test"
        /\ ThreadAt(t, At(threads[t], IF instance.supports_transitive_queries # "None"
                                      THEN "tested" ELSE "asking"),
                    instance)

\* self.graph.query(test_query) and the assignment of the flag, lines
\* 136-140
TransitiveSupportAsked ==
    \E t \in Threads :
        /\ threads[t].pc = "asking"
        /\ ThreadAt(t, At(threads[t], "tested"),
                    [instance EXCEPT !.supports_transitive_queries =
                         IF backend_transitive THEN "True" ELSE "False"])

\* return self.supports_transitive_queries, lines 125 and 144: the flag as
\* it is now, None when another thread has reset it since
TransitiveSupportReturned ==
    \E t \in Threads :
        /\ threads[t].pc = "tested"
        /\ ThreadAt(t, [threads[t] EXCEPT
                            !.pc = "query",
                            !.supported = instance.supports_transitive_queries],
                    instance)

\* result = self._check_with_transitive_query(...) or
\* result = self._check_with_manual_traversal(...): None is falsy
QueryResult(graph, supported, narrower_iri, broader_iri) ==
    IF supported = "True"
    THEN _check_with_transitive_query(graph, narrower_iri, broader_iri)
    ELSE _check_with_manual_traversal(graph, narrower_iri, broader_iri)

\* the thread queries the graph as it is now
IsSubtypeOfGraphQuery ==
    \E t \in Threads :
        /\ threads[t].pc = "query"
        /\ threads' = [threads EXCEPT
                           ![t].pc = "queried",
                           ![t].result =
                               QueryResult(instance.graph, threads[t].supported,
                                           threads[t].narrower_iri,
                                           threads[t].broader_iri)]
        /\ order' = FirstOrder
        /\ UNCHANGED <<SEMANTIC_REASONING_ENABLED, instance, backend_transitive,
                       network, call, ncalls, query, nqueries, heap>>

\* self.relation_cache[cache_key] = result; return result
IsSubtypeOfCacheInsert ==
    \E t \in Threads :
        /\ threads[t].pc = "queried"
        /\ ThreadAt(t, Idle,
                    CachePut(instance,
                             <<threads[t].narrower_iri, threads[t].broader_iri>>,
                             threads[t].result))

\* a thread outside is_subtype_of calls add_test_relationship:
\* self.graph.add((narrower_ref, broader_prop, broader_ref)), line 267
AddTestRelationshipByThread ==
    \E t \in Threads, pair \in TestRelationships :
        /\ nqueries < MaxQueries
        /\ threads[t].pc = "idle"
        /\ instance' = [instance EXCEPT !.graph =
                            @ \cup {<<normalize_iri(pair[1]), broader_prop,
                                      normalize_iri(pair[2])>>}]
        /\ heap' = Held(heap, instance')
        /\ threads' = [threads EXCEPT ![t] = At(Idle, "added")]
        /\ nqueries' = nqueries + 1
        /\ UNCHANGED <<SEMANTIC_REASONING_ENABLED, backend_transitive, network,
                       call, ncalls, query, order>>

\* add_test_relationship: self.relation_cache.clear(), line 271
AddTestRelationshipClears ==
    \E t \in Threads :
        /\ threads[t].pc = "added"
        /\ ThreadAt(t, Idle, [instance EXCEPT !.relation_cache = [k \in {} |-> TRUE]])

ConcurrentNext ==
    \/ DrawOrder
    \/ IsSubtypeOfQuery
    \/ IsSubtypeOfCacheRead
    \/ LazyLoadStarts
    \/ LazyLoadTestsFetched
    \/ LazyLoadCallsParse
    \/ LazyLoadReturns
    \/ LazyLoadRecords
    \/ LazyLoadClears
    \/ LazyLoadResets
    \/ LazyLoadFails
    \/ TestTransitiveSupport
    \/ TransitiveSupportAsked
    \/ TransitiveSupportReturned
    \/ IsSubtypeOfGraphQuery
    \/ IsSubtypeOfCacheInsert
    \/ AddTestRelationshipByThread
    \/ AddTestRelationshipClears

ConcurrentSpec == ConcurrentInit /\ [][ConcurrentNext]_vars

(***************************************************************************)
(* The except clause of join (api.py 165-181), applied to the canonical    *)
(* operands and the ValueError the structural join raised.                 *)
(***************************************************************************)
AmbiguousMessage == "The truth value of a bound is ambiguous"
OtherMessage == "invalid literal"

\* manual_result: min and max over the bounds, float('-inf') and
\* float('inf') standing in for a missing one
manual_result(s1_canonical, s2_canonical) ==
    [type |-> "number",
     minimum |-> Min(NumLo(s1_canonical), NumLo(s2_canonical)),
     maximum |-> Max(NumHi(s1_canonical), NumHi(s2_canonical))]

\* except ValueError as e: the manual result for two operands of type
\* "number" and the ambiguous-bound message, otherwise raise
join_except(e, s1_canonical, s2_canonical, result_stype, inst) ==
    IF /\ e = AmbiguousMessage
       /\ \A c \in {s1_canonical, s2_canonical} : Get(c, "type") = "number"
    THEN ReturnSchema(WithStype(manual_result(s1_canonical, s2_canonical), result_stype),
                      inst, FALSE)
    ELSE Raise(e, inst, FALSE)

\* canonical numeric operands: both numeric types, each bound present or not
CanonicalNumerics ==
    {MkRec({<<"type", TRUE, type>>,
            <<"minimum", minimum # NegInf, minimum>>,
            <<"maximum", maximum # PosInf, maximum>>}) :
        type \in {"number", "integer"},
        minimum \in {NegInf, 0, 1}, maximum \in {1, MaxNum, PosInf}}

\* an unbounded bound of one operand meets a bounded one of the other
UnboundedMeetsBounded(s1_canonical, s2_canonical) ==
    \/ ("minimum" \in DOMAIN s1_canonical) # ("minimum" \in DOMAIN s2_canonical)
    \/ ("maximum" \in DOMAIN s1_canonical) # ("maximum" \in DOMAIN s2_canonical)

\* the ValueErrors the structural join can raise for two operands
Raisable(s1_canonical, s2_canonical) ==
    {OtherMessage} \cup (IF UnboundedMeetsBounded(s1_canonical, s2_canonical)
                         THEN {AmbiguousMessage} ELSE {})

\* join inside its try block: the operands canonicalized, the annotation
\* determined, the structural join about to raise
JoinHandlerInit ==
    /\ SEMANTIC_REASONING_ENABLED = TRUE
    /\ instance = NoInstance
    /\ backend_transitive = TRUE
    /\ network = Offline
    /\ call \in {[op |-> "join.try", s1 |-> s1_canonical, s2 |-> s2_canonical,
                   raised |-> e, result_stype |-> result_stype,
                   result |-> FALSE, schema |-> EmptyDict, used |-> FALSE,
                   error |-> "none"] :
                      s1_canonical \in CanonicalNumerics,
                      s2_canonical \in CanonicalNumerics,
                      e \in {AmbiguousMessage, OtherMessage},
                      result_stype \in {None, Temperature}}
    /\ call.raised \in Raisable(call.s1, call.s2)
    /\ ncalls = 0
    /\ query = NoQuery
    /\ nqueries = 0
    /\ threads = NoThreads
    /\ order = FirstOrder
    /\ heap = UserGraphs

\* what join hands back once the except clause has run
Handled(o) ==
    /\ call' = [call EXCEPT !.op = "join.except", !.schema = o.schema,
                            !.error = o.error]
    /\ ncalls' = ncalls + 1
    /\ UNCHANGED <<SEMANTIC_REASONING_ENABLED, instance, backend_transitive,
                   network, query, nqueries, threads, order, heap>>

JoinExcept ==
    /\ call.op = "join.try"
    /\ Handled(join_except(call.raised, call.s1, call.s2, call.result_stype,
                           instance))

JoinHandlerNext == JoinExcept

JoinHandlerSpec == JoinHandlerInit /\ [][JoinHandlerNext]_vars

(***************************************************************************)
(* The properties.  A property is read in the state a public operation     *)
(* leaves: call holds its operands and what it returned, instance the      *)
(* resolver as it stands then.                                             *)
(***************************************************************************)
Returned(op) == call.op = op /\ call.error = "none"

\* the resolver's answer and the checker's answer in the current state
Resolver == get_instance(instance, NoGraph, FALSE)
Subtype(a, b) == is_subtype_of(Resolver, a, b).result
Compatible(s1, s2) == is_semantically_compatible(s1, s2, Resolver).ok
\* the structural relation of the canonical forms
Structural(s1, s2) == isSubtype(canonicalize_schema(s1), canonicalize_schema(s2))
\* isSubschema(s1, s2) called in the current state, True only when it returns True
Sub(s1, s2) ==
    LET o == isSubschema(s1, s2, instance) IN o.error = "none" /\ o.result

\* the elements of a sequence, and a sequence that holds none twice
Range(seq) == {seq[i] : i \in 1..Len(seq)}
NoDuplicates(seq) == \A i, j \in 1..Len(seq) : i # j => seq[i] # seq[j]

\* C1: with semantic reasoning enabled, isSubschema(a, b) is True exactly
\* when is_semantically_compatible(a, b) is True and the canonical form of a
\* is a structural subtype of the canonical form of b; a failed semantic
\* check returns False at once, even for operands that cannot be
\* canonicalized.
C1_SubschemaIsSemanticAndStructural ==
    (call.op = "isSubschema" /\ SEMANTIC_REASONING_ENABLED) =>
        /\ ~Compatible(call.s1, call.s2) => (call.error = "none" /\ ~call.result)
        /\ Compatible(call.s1, call.s2) =>
              /\ call.error = prepare_operands(call.s1, call.s2)
              /\ call.error = "none" => call.result = Structural(call.s1, call.s2)

\* a structurally accepted pair that the semantic check rejects
C1_Witness ==
    /\ Returned("isSubschema") /\ SEMANTIC_REASONING_ENABLED
    /\ ~HasRecursiveRef(call.s1) /\ ~HasRecursiveRef(call.s2)
    /\ Structural(call.s1, call.s2)
    /\ ~Compatible(call.s1, call.s2)
    /\ ~call.result

\* the rule of one node as the claim states it
NodeRule(s1, s2) ==
    CASE "stype" \notin DOMAIN s1 /\ "stype" \notin DOMAIN s2 -> TRUE
      [] "stype" \in DOMAIN s1 /\ "stype" \notin DOMAIN s2 -> TRUE
      [] "stype" \notin DOMAIN s1 /\ "stype" \in DOMAIN s2 -> FALSE
      [] OTHER -> Subtype(s1.stype, s2.stype)

\* a schema with no position below its root
Flat(s) ==
    DOMAIN s \subseteq {"type", "stype", "minimum", "maximum"}

\* C2: at one schema node the semantic check is compatible when neither
\* side has stype, compatible when only a has it, incompatible when only b
\* has it, and, when both have it, compatible exactly when
\* resolver.is_subtype_of(a.stype, b.stype); for operands that are one node
\* this is the whole semantic check, and decides isSubschema when the
\* structures agree.
C2_NodeRule ==
    call.op # "none" =>
        /\ _check_semantic_types_compatible(call.s1, call.s2, Resolver).ok
               = NodeRule(call.s1, call.s2)
        /\ (SEMANTIC_REASONING_ENABLED /\ Flat(call.s1) /\ Flat(call.s2)) =>
               /\ Compatible(call.s1, call.s2) = NodeRule(call.s1, call.s2)
               /\ (call.op = "isSubschema" /\ Structural(call.s1, call.s2)) =>
                      call.result = NodeRule(call.s1, call.s2)

\* both annotated, the annotations differ and the graph relates them
C2_Witness ==
    /\ Returned("isSubschema") /\ SEMANTIC_REASONING_ENABLED
    /\ Flat(call.s1) /\ Flat(call.s2)
    /\ "stype" \in DOMAIN call.s1 /\ "stype" \in DOMAIN call.s2
    /\ normalize_iri(call.s1.stype) # normalize_iri(call.s2.stype)
    /\ call.result

\* every concept reachable from the frontier over skos:broader and
\* rdfs:subClassOf edges
RECURSIVE Ancestors(_, _, _)
Ancestors(graph, frontier, seen) ==
    LET next == UNION {Objects(graph, n, broader_prop) \cup Objects(graph, n, subclass_prop)
                          : n \in frontier} \ seen
    IN  IF next = {} THEN seen ELSE Ancestors(graph, next, seen \cup next)

\* neither concept is the other or below it in the hierarchy
Unrelated(graph, a, b) ==
    LET x == normalize_iri(a)
        y == normalize_iri(b)
    IN  y \notin Ancestors(graph, {x}, {x}) /\ x \notin Ancestors(graph, {y}, {y})

\* the two schemas hold annotations of unrelated concepts at one position:
\* the root, a property name, items, a tuple position, additionalProperties,
\* an identical pattern, at any depth
RECURSIVE UnrelatedAtSamePosition(_, _, _)
UnrelatedAtSamePosition(s1, s2, graph) ==
    \/ /\ "stype" \in DOMAIN s1 /\ "stype" \in DOMAIN s2
       /\ Unrelated(graph, s1.stype, s2.stype)
    \/ \E n \in (DOMAIN Props(s1)) \cap (DOMAIN Props(s2)) :
          UnrelatedAtSamePosition(s1.properties[n], s2.properties[n], graph)
    \/ \E q \in (DOMAIN PProps(s1)) \cap (DOMAIN PProps(s2)) :
          UnrelatedAtSamePosition(s1.patternProperties[q], s2.patternProperties[q], graph)
    \/ /\ "items" \in DOMAIN s1 /\ "items" \in DOMAIN s2
       /\ \/ /\ IsDict(s1.items) /\ IsDict(s2.items)
             /\ UnrelatedAtSamePosition(s1.items, s2.items, graph)
          \/ /\ IsList(s1.items) /\ IsList(s2.items)
             /\ \E i \in (DOMAIN s1.items.list) \cap (DOMAIN s2.items.list) :
                   UnrelatedAtSamePosition(s1.items.list[i], s2.items.list[i], graph)
    \/ /\ "additionalProperties" \in DOMAIN s1 /\ "additionalProperties" \in DOMAIN s2
       /\ IsDict(s1.additionalProperties) /\ IsDict(s2.additionalProperties)
       /\ UnrelatedAtSamePosition(s1.additionalProperties, s2.additionalProperties, graph)

\* C3 as stated: whenever two schemas are annotated with unrelated concepts
\* at the same position, isSubschema is False (the operands range over both
\* orders), even when the schemas are structurally identical.
C3_UnrelatedNeverSubschema ==
    (call.op = "isSubschema"
        /\ UnrelatedAtSamePosition(call.s1, call.s2, Resolver.graph)) =>
        (call.error = "none" /\ ~call.result)

\* C3 amended: with semantic reasoning enabled, two schemas annotated with
\* unrelated concepts at the same position are not subschemas of each other.
C3_UnrelatedNeverSubschemaWhenEnabled ==
    SEMANTIC_REASONING_ENABLED => C3_UnrelatedNeverSubschema

\* structurally identical operands whose unrelated annotations sit below
\* the root
C3_Witness ==
    /\ Returned("isSubschema") /\ SEMANTIC_REASONING_ENABLED
    /\ "stype" \notin DOMAIN call.s1 /\ "stype" \notin DOMAIN call.s2
    /\ UnrelatedAtSamePosition(call.s1, call.s2, Resolver.graph)
    /\ canonicalize_schema(call.s1) = canonicalize_schema(call.s2)
    /\ ~call.result

\* the schema with every stype removed, at every position
RECURSIVE StripStype(_)
StripStype(s) ==
    [k \in (DOMAIN s) \ {"stype"} |->
        CASE k \in {"properties", "patternProperties"} ->
                [n \in DOMAIN s[k] |-> StripStype(s[k][n])]
          [] k \in {"items", "additionalProperties"} ->
                IF IsList(s[k])
                THEN [list |-> [i \in DOMAIN s[k].list |-> StripStype(s[k].list[i])]]
                ELSE IF "bool" \in DOMAIN s[k] THEN s[k]
                ELSE StripStype(s[k])
          [] k \in {"allOf", "anyOf", "oneOf"} ->
                [i \in DOMAIN s[k] |-> StripStype(s[k][i])]
          [] OTHER -> s[k]]

\* C4: with semantic reasoning disabled the four operations return what
\* they return for the operands with every stype removed, so stype never
\* changes a result; the resolver is not consulted; meet is Bottom only when
\* the structural meet is; and no stype is attached to a meet or join
\* result.
C4_DisabledIsStructural ==
    (call.op \in {"isSubschema", "isEquivalent", "meet", "join"}
         /\ ~SEMANTIC_REASONING_ENABLED) =>
        LET a == StripStype(call.s1)
            b == StripStype(call.s2)
        IN  /\ ~call.used
            /\ call.error = prepare_operands(a, b)
            /\ call.op = "isSubschema" =>
                  call.result = isSubschema(a, b, instance).result
            /\ call.op = "isEquivalent" =>
                  call.result = isEquivalent(a, b, instance).result
            /\ call.op = "meet" =>
                  /\ call.schema = meet(a, b, instance).schema
                  /\ "stype" \notin DOMAIN call.schema
            /\ call.op = "join" =>
                  /\ call.schema = join(a, b, instance).schema
                  /\ "stype" \notin DOMAIN call.schema

\* a meet that is Bottom when enabled (only the right operand is annotated)
\* and is not Bottom when disabled
C4_Witness ==
    /\ Returned("meet") /\ ~SEMANTIC_REASONING_ENABLED
    /\ "stype" \notin DOMAIN call.s1 /\ "stype" \in DOMAIN call.s2
    /\ call.schema # Bottom
    /\ ~call.used

\* C5: for every schema s that canonicalizes, isSubschema(s, s) is True and
\* is_semantically_compatible(s, s) is True, annotated at any position or
\* not.
C5_Reflexive ==
    (Returned("isSubschema") /\ call.s1 = call.s2) =>
        (call.result /\ Compatible(call.s1, call.s1))

\* an annotated schema against itself, the resolver consulted
C5_Witness ==
    /\ Returned("isSubschema") /\ SEMANTIC_REASONING_ENABLED
    /\ call.s1 = call.s2
    /\ call.s1 # StripStype(call.s1)
    /\ call.used
    /\ call.result

\* C6: transitivity.  For all schemas a, b, c and a fixed resolver graph,
\* isSubschema(a, b) and isSubschema(b, c) imply isSubschema(a, c): an
\* isSubschema(a, c) that returned False has no b between a and c.
C6_Transitive ==
    (Returned("isSubschema") /\ SEMANTIC_REASONING_ENABLED /\ ~call.result) =>
        ~ \E b \in Schemas : Sub(call.s1, b) /\ Sub(b, call.s2)

\* C7 as stated: in either mode isEquivalent(a, b) is True exactly when
\* isSubschema(a, b) and isSubschema(b, a) are both True, and schemas that
\* differ in stype presence at the root are not equivalent.
C7_EquivalentIsMutualSubschema ==
    Returned("isEquivalent") =>
        /\ call.result = (Sub(call.s1, call.s2) /\ Sub(call.s2, call.s1))
        /\ ("stype" \in DOMAIN call.s1) # ("stype" \in DOMAIN call.s2) => ~call.result

\* C7 amended: in either mode isEquivalent(a, b) is True exactly when
\* isSubschema(a, b) and isSubschema(b, a) are both True; with semantic
\* reasoning enabled, schemas that differ in stype presence at the root are
\* not equivalent.
C7_EquivalentIsMutualSubschemaPresenceWhenEnabled ==
    Returned("isEquivalent") =>
        /\ call.result = (Sub(call.s1, call.s2) /\ Sub(call.s2, call.s1))
        /\ (SEMANTIC_REASONING_ENABLED
               /\ ("stype" \in DOMAIN call.s1) # ("stype" \in DOMAIN call.s2)) =>
               ~call.result

\* equivalent schemas whose root annotations are spelled differently: the
\* mutual is_subtype_of check of isEquivalent has acted
C7_Witness ==
    /\ Returned("isEquivalent") /\ SEMANTIC_REASONING_ENABLED
    /\ "stype" \in DOMAIN call.s1 /\ "stype" \in DOMAIN call.s2
    /\ call.s1.stype # call.s2.stype
    /\ call.result

\* C8: the meet lower-bound law.  For all schemas a, b,
\* isSubschema(meet(a, b), a) and isSubschema(meet(a, b), b) are True, also
\* when meet(a, b) is the Bottom schema of semantically incompatible
\* operands.
C8_MeetIsLowerBound ==
    Returned("meet") =>
        (Sub(call.schema, call.s1) /\ Sub(call.schema, call.s2))

\* C9: the join upper-bound law.  For all schemas a, b,
\* isSubschema(a, join(a, b)) and isSubschema(b, join(a, b)) are True, for
\* every combination of root annotations.
C9_JoinIsUpperBound ==
    Returned("join") =>
        (Sub(call.s1, call.schema) /\ Sub(call.s2, call.schema))

\* C10: with semantic reasoning enabled, meet(a, b) of semantically
\* incompatible operands returns exactly {"not": {}} and raises nothing,
\* whatever canonicalization would have done with the operands.
C10_IncompatibleMeetIsBottom ==
    (call.op = "meet" /\ SEMANTIC_REASONING_ENABLED
        /\ ~Compatible(call.s1, call.s2)) =>
        (call.error = "none" /\ call.schema = [not |-> EmptyDict])

\* incompatible operands one of which cannot be canonicalized
C10_Witness ==
    /\ call.op = "meet" /\ SEMANTIC_REASONING_ENABLED
    /\ ~Compatible(call.s1, call.s2)
    /\ HasRecursiveRef(call.s1)
    /\ call.schema = [not |-> EmptyDict]
    /\ call.error = "none"

\* the root annotation of a result schema, None when it carries none
RootStype(schema) == Get(schema, "stype")

\* the annotations among a and b that the resolver places below the other
Narrower(a, b) ==
    (IF Subtype(a, b) THEN {a} ELSE {}) \cup (IF Subtype(b, a) THEN {b} ELSE {})
\* the annotations among a and b that the resolver places above the other
Broader(a, b) ==
    (IF Subtype(a, b) THEN {b} ELSE {}) \cup (IF Subtype(b, a) THEN {a} ELSE {})

\* the rule of C11 for the root annotation of meet(s1, s2)
MeetAnnotationRule(s1, s2, schema) ==
    LET a == Get(s1, "stype")
        b == Get(s2, "stype")
    IN  CASE a = b -> RootStype(schema) = a
          [] a # b /\ b = None -> RootStype(schema) = a
          [] a # b /\ a = None -> RootStype(schema) = b
          [] OTHER ->
                IF Narrower(a, b) # {} THEN RootStype(schema) \in Narrower(a, b)
                ELSE RootStype(schema) = None

\* C11 as stated: for meet(a, b) of semantically compatible operands the
\* result carries the more specific root annotation: the identical one, the
\* only one, the narrower of two comparable ones, none for incomparable ones.
C11_MeetCarriesNarrower ==
    (Returned("meet") /\ Compatible(call.s1, call.s2)) =>
        MeetAnnotationRule(call.s1, call.s2, call.schema)

\* C11 amended: with semantic reasoning enabled, meet(a, b) of semantically
\* compatible operands carries the more specific root annotation.
C11_MeetCarriesNarrowerWhenEnabled ==
    SEMANTIC_REASONING_ENABLED => C11_MeetCarriesNarrower

\* two different concepts the graph orders: the meet carries the narrower
C11_Witness ==
    /\ Returned("meet") /\ SEMANTIC_REASONING_ENABLED
    /\ Compatible(call.s1, call.s2)
    /\ "stype" \in DOMAIN call.s1 /\ "stype" \in DOMAIN call.s2
    /\ normalize_iri(call.s1.stype) # normalize_iri(call.s2.stype)
    /\ ~Subtype(call.s2.stype, call.s1.stype)
    /\ RootStype(call.schema) = call.s1.stype

\* the rule of C12 for the root annotation of join(s1, s2)
JoinAnnotationRule(s1, s2, schema) ==
    LET a == Get(s1, "stype")
        b == Get(s2, "stype")
    IN  /\ CASE a = None \/ b = None -> RootStype(schema) = None
             [] a # None /\ a = b -> RootStype(schema) = a
             [] OTHER ->
                   IF Broader(a, b) # {} THEN RootStype(schema) \in Broader(a, b)
                   ELSE RootStype(schema) = None
        /\ RootStype(schema) # None =>
               /\ a # None /\ b # None
               /\ Subtype(a, RootStype(schema)) /\ Subtype(b, RootStype(schema))

\* C12 as stated: join(a, b) attaches the more general of the two root
\* annotations (the identical one, the broader of two comparable ones in
\* either operand order), attaches none when an operand lacks one or the two
\* are incomparable, and never carries an annotation that is not a supertype
\* of or equal to both operands' annotations.
C12_JoinCarriesBroader ==
    Returned("join") => JoinAnnotationRule(call.s1, call.s2, call.schema)

\* C12 amended: with semantic reasoning enabled, join(a, b) attaches the
\* more general of the two root annotations, none when an operand lacks one
\* or the two are incomparable, and never one that is not a supertype of or
\* equal to both.
C12_JoinCarriesBroaderWhenEnabled ==
    SEMANTIC_REASONING_ENABLED => C12_JoinCarriesBroader

\* the broader concept held by the first operand: the join carries it
C12_Witness ==
    /\ Returned("join") /\ SEMANTIC_REASONING_ENABLED
    /\ "stype" \in DOMAIN call.s1 /\ "stype" \in DOMAIN call.s2
    /\ normalize_iri(call.s1.stype) # normalize_iri(call.s2.stype)
    /\ ~Subtype(call.s1.stype, call.s2.stype)
    /\ RootStype(call.schema) = call.s1.stype

\* an operand whose references form a cycle
Cyclic(s) == HasRecursiveRef(s)

\* C21: isSubschema, meet, join and isEquivalent called with an operand
\* whose canonicalization fails by unbounded recursion fail with
\* UnsupportedRecursiveRef naming the side of that operand (LHS for the
\* first, RHS for the second, LHS when both are cyclic); none returns a
\* boolean or a schema.
C21_RecursiveRefRaises ==
    (call.op \in {"isSubschema", "isEquivalent", "meet", "join"}
         /\ (Cyclic(call.s1) \/ Cyclic(call.s2))) =>
        call.error = IF Cyclic(call.s1) THEN "UnsupportedRecursiveRef(LHS)"
                     ELSE "UnsupportedRecursiveRef(RHS)"

\* isinstance(s.get(k), dict) and isinstance(s.get(k), list)
HoldsDict(s, k) == k \in DOMAIN s /\ IsDict(s[k])
HoldsList(s, k) == k \in DOMAIN s /\ IsList(s[k])

\* the pairs of subschemas at the positions a and b both declare: the
\* shared property names, the identical patterns, additionalProperties when
\* both give a schema, the items schemas, the shared prefix of two tuples
SharedPositions(a, b) ==
    {<<a.properties[n], b.properties[n]>> : n \in DOMAIN Props(a) \cap DOMAIN Props(b)}
    \cup {<<a.patternProperties[n], b.patternProperties[n]>> :
              n \in DOMAIN PProps(a) \cap DOMAIN PProps(b)}
    \cup (IF HoldsDict(a, "additionalProperties") /\ HoldsDict(b, "additionalProperties")
          THEN {<<a.additionalProperties, b.additionalProperties>>} ELSE {})
    \cup (IF HoldsDict(a, "items") /\ HoldsDict(b, "items")
          THEN {<<a.items, b.items>>} ELSE {})
    \cup (IF HoldsList(a, "items") /\ HoldsList(b, "items")
          THEN {<<a.items.list[i], b.items.list[i]>> :
                   i \in 1..Min(Len(a.items.list), Len(b.items.list))}
          ELSE {})

\* the branches of a connective, and a connective both sides carry
BranchesOf(s, keyword) == Range(GetOr(s, keyword, <<>>))
BothCarry(a, b, keyword) == BranchesOf(a, keyword) # {} /\ BranchesOf(b, keyword) # {}

\* one side gives a single items schema and the other a tuple, at the root
\* or at a position both declare
RECURSIVE MixedItems(_, _)
MixedItems(a, b) ==
    \/ HoldsDict(a, "items") /\ HoldsList(b, "items")
    \/ HoldsList(a, "items") /\ HoldsDict(b, "items")
    \/ \E p \in SharedPositions(a, b) : MixedItems(p[1], p[2])
    \/ \E k \in {"allOf", "anyOf", "oneOf"} :
          \E x \in BranchesOf(a, k), y \in BranchesOf(b, k) : MixedItems(x, y)

\* the relation of C22: the node rule at the root, the same relation at
\* every position both sides declare, and the connective rules
RECURSIVE CompatibilityRule(_, _)
CompatibilityRule(a, b) ==
    /\ NodeRule(a, b)
    /\ \A p \in SharedPositions(a, b) : CompatibilityRule(p[1], p[2])
    /\ BothCarry(a, b, "allOf") =>
           \A x \in BranchesOf(a, "allOf") :
               \E y \in BranchesOf(b, "allOf") : CompatibilityRule(x, y)
    /\ BothCarry(a, b, "anyOf") =>
           \E x \in BranchesOf(a, "anyOf") :
               \E y \in BranchesOf(b, "anyOf") : CompatibilityRule(x, y)
    /\ BothCarry(a, b, "oneOf") =>
           \E x \in BranchesOf(a, "oneOf") :
               \E y \in BranchesOf(b, "oneOf") : CompatibilityRule(x, y)

\* C22: for schemas whose items are both single schemas or both tuples,
\* is_semantically_compatible(a, b) is True exactly when the node rule
\* holds at the root and, recursively, the same relation holds for every
\* property name both declare, for the items schemas (tuples position by
\* position over the shared prefix), for additionalProperties when both
\* give a schema, for patternProperties with the identical pattern, and the
\* allOf, anyOf and oneOf rules hold; a position only one side declares
\* imposes nothing.
C22_NestedRule ==
    (call.op = "is_semantically_compatible" /\ ~MixedItems(call.s1, call.s2)) =>
        call.result = CompatibilityRule(call.s1, call.s2)

\* each branch of a compatible with a branch of b; a branch of a compatible
\* with a branch of b
EachWithSome(xs, ys) == \A x \in xs : \E y \in ys : Compatible(x, y)
SomeWithSome(xs, ys) == \E x \in xs : \E y \in ys : Compatible(x, y)

\* the connective rules of C23 for a and b
ConnectiveRules(a, b) ==
    /\ BothCarry(a, b, "allOf") =>
           EachWithSome(BranchesOf(a, "allOf"), BranchesOf(b, "allOf"))
    /\ BothCarry(a, b, "anyOf") =>
           SomeWithSome(BranchesOf(a, "anyOf"), BranchesOf(b, "anyOf"))
    /\ BothCarry(a, b, "oneOf") =>
           SomeWithSome(BranchesOf(a, "oneOf"), BranchesOf(b, "oneOf"))

\* a schema that holds connectives and nothing else
ConnectivesOnly(s) == DOMAIN s \subseteq {"allOf", "anyOf", "oneOf"}

\* C23: when both schemas carry a non-empty list for the same keyword,
\* allOf is compatible exactly when each branch of a is compatible with at
\* least one branch of b, anyOf exactly when at least one branch of a is
\* compatible with at least one branch of b, and oneOf gives what the anyOf
\* rule gives on the same lists; a connective only one side carries is not
\* compared.
C23_ConnectiveRules ==
    call.op = "is_semantically_compatible" =>
        /\ _check_boolean_connectives_semantic_compatibility(
               call.s1, call.s2, Resolver).ok = ConnectiveRules(call.s1, call.s2)
        /\ BothCarry(call.s1, call.s2, "oneOf") =>
               OneOfLoop(call.s1.oneOf, call.s2.oneOf, Resolver).ok
                   = AnyOfLoop(call.s1.oneOf, call.s2.oneOf, Resolver).ok
        /\ (SEMANTIC_REASONING_ENABLED
               /\ ConnectivesOnly(call.s1) /\ ConnectivesOnly(call.s2)) =>
               call.result = ConnectiveRules(call.s1, call.s2)

\* two allOf lists where one branch of a finds a compatible branch of b and
\* another finds none: incompatible, where the anyOf rule would accept
C23_Witness ==
    /\ call.op = "is_semantically_compatible" /\ SEMANTIC_REASONING_ENABLED
    /\ ConnectivesOnly(call.s1) /\ ConnectivesOnly(call.s2)
    /\ BothCarry(call.s1, call.s2, "allOf")
    /\ SomeWithSome(BranchesOf(call.s1, "allOf"), BranchesOf(call.s2, "allOf"))
    /\ ~call.result

(***************************************************************************)
(* The properties of the resolver.  A property is read in the state an     *)
(* operation on the resolver leaves: query holds its arguments, what it    *)
(* returned and the singleton as the operation found it (query.before),    *)
(* instance the singleton as it stands then.                               *)
(***************************************************************************)
Asked(op) == query.op = op

\* b is reachable from n by at least one skos:broader or rdfs:subClassOf
\* edge, the two composed freely along the path
Reachable(graph, n, b) == b \in Ancestors(graph, {n}, {})

\* the cache key of the is_subtype_of call in query
QueryKey == <<normalize_iri(query.narrower), normalize_iri(query.broader)>>

\* the namespaces graph.parse was called on during the operation in query
NewFetches ==
    SubSeq(instance.fetch_log, Len(query.before.fetch_log) + 1, Len(instance.fetch_log))

\* C13: with semantic reasoning enabled, is_subtype_of(n, b) is True exactly
\* when normalize(n) = normalize(b) or normalize(b) is reachable from
\* normalize(n) in the transitive closure of the union of skos:broader and
\* rdfs:subClassOf, the two composable along one path; a concept in no
\* triple is a subtype only of itself.
C13_SubtypeIsReachability ==
    (Asked("is_subtype_of") /\ SEMANTIC_REASONING_ENABLED) =>
        query.result = (QueryKey[1] = QueryKey[2]
                           \/ Reachable(instance.graph, QueryKey[1], QueryKey[2]))

\* every concept of a graph, with the identifiers a query may name
Concepts(graph) ==
    {t[1] : t \in graph} \cup {t[3] : t \in graph}
    \cup {normalize_iri(i) : i \in Identifiers}

\* a traversal from n for b that expanded no concept twice, no more
\* concepts than there are, and found b only if an edge path leads to it
TraversalBounded(graph, n, b, traversal) ==
    /\ NoDuplicates(traversal.expanded)
    /\ Len(traversal.expanded) <= Cardinality(Concepts(graph))
    /\ traversal.result = _check_with_manual_traversal(graph, n, b)
    /\ _check_with_manual_traversal(graph, n, b) => Reachable(graph, n, b)

\* C14: the manual breadth-first traversal ends on every graph, cyclic ones
\* included: it expands each concept at most once, so at most as many
\* concepts as the graph has, and it returns True only for a target that is
\* reachable from the start by at least one edge; the start is the
\* normalized narrower identifier of a query, the target any concept.
C14_ManualTraversalTerminates ==
    (instance.live /\ Asked("is_subtype_of")) =>
        \A b \in Concepts(instance.graph) :
            \A o \in PairOrders :
                TraversalBounded(instance.graph, QueryKey[1], b,
                    _check_with_manual_traversal_loop(
                        instance.graph, <<QueryKey[1]>>, {}, b, <<>>, 0, o))

\* a query answered by the traversal on a graph whose edges lead from the
\* start back to the start: the cycle is walked once and the answer is False
C14_Witness ==
    /\ Asked("is_subtype_of") /\ SEMANTIC_REASONING_ENABLED
    /\ instance.supports_transitive_queries = "False"
    /\ QueryKey \notin DOMAIN query.before.relation_cache
    /\ Reachable(instance.graph, QueryKey[1], QueryKey[1])
    /\ Len(_check_with_manual_traversal_loop(
               instance.graph, <<QueryKey[1]>>, {}, QueryKey[2], <<>>, 0,
               order).expanded) >= 2
    /\ ~query.result

\* the operation in query ran a lazy fetch that completed
FetchCompleted ==
    Asked("is_subtype_of") /\ \E i \in 1..Len(NewFetches) : Parse(NewFetches[i]).ok

\* C15: after any graph mutation - a relationship injected with
\* add_test_relationship, new triples merged into the graph object the
\* resolver holds, a completed lazy fetch - the relation cache is empty and
\* the transitive-support flag is untested again; after a query that
\* fetched, the cache holds no entry but that query's.
C15_MutationInvalidates ==
    /\ (Asked("add_test_relationship") \/ Asked("parse")) =>
           /\ DOMAIN instance.relation_cache = {}
           /\ instance.supports_transitive_queries = "None"
    /\ FetchCompleted => DOMAIN instance.relation_cache \subseteq {QueryKey}

\* the operations that leave the instance in place
SameInstance == Asked("is_subtype_of") \/ Asked("add_test_relationship") \/ Asked("parse")

\* C16: with lazy loading active, over any sequence of is_subtype_of queries
\* on one resolver instance graph.parse is called at most once per
\* namespace, whether the call succeeded or failed: the fetched set is
\* exactly the namespaces parsed, it only grows, and a namespace in it is
\* not parsed again, also when both identifiers of a query share it.
C16_FetchOncePerNamespace ==
    /\ instance.live =>
           /\ NoDuplicates(instance.fetch_log)
           /\ Range(instance.fetch_log) = instance.fetched_namespaces
    /\ SameInstance =>
           /\ query.before.fetched_namespaces \subseteq instance.fetched_namespaces
           /\ query.before.fetch_log
                  = SubSeq(instance.fetch_log, 1, Len(query.before.fetch_log))
           /\ \A i \in 1..Len(NewFetches) :
                  NewFetches[i] \notin query.before.fetched_namespaces

\* a second query on identifiers of one namespace whose fetch failed before:
\* neither identifier is in the graph, the answer is not cached, and
\* nothing is fetched
C16_Witness ==
    /\ Asked("is_subtype_of") /\ SEMANTIC_REASONING_ENABLED
    /\ instance.lazy_load
    /\ QueryKey[1] # QueryKey[2]
    /\ QueryKey \notin DOMAIN query.before.relation_cache
    /\ _extract_namespace(QueryKey[1]) = _extract_namespace(QueryKey[2])
    /\ ~_type_exists_in_graph(instance.graph, QueryKey[1])
    /\ ~_type_exists_in_graph(instance.graph, QueryKey[2])
    /\ _extract_namespace(QueryKey[1]) \in query.before.fetched_namespaces
    /\ ~Parse(_extract_namespace(QueryKey[1])).ok
    /\ NewFetches = <<>>

\* the operation in query ran lazy fetches and every one of them failed
FetchFailed ==
    /\ Asked("is_subtype_of")
    /\ NewFetches # <<>>
    /\ \A i \in 1..Len(NewFetches) : ~Parse(NewFetches[i]).ok

KnownCompact(v) ==
    /\ v # None /\ v # <<>>
    /\ Head(v) \notin {"http://", "https://"}
    /\ FirstColon(v) # 0
    /\ SubSeq(v, 1, FirstColon(v) - 1)
           \in {<<"quantitykind">>, <<"qudt">>, <<"skos">>, <<"ex">>, <<"foaf">>}

\* C18: normalize_iri expands a compact prefix:local identifier, split at
\* its first colon, to prefix-IRI + local exactly when the prefix is in the
\* known-prefix table; an identifier with an unknown prefix, one that starts
\* with http:// or https://, None and the empty string are returned
\* unchanged.
C18_NormalizeExpandsKnownPrefix ==
    Asked("normalize_iri") =>
        /\ KnownCompact(query.narrower) =>
               query.value
                   = prefixes[SubSeq(query.narrower, 1, FirstColon(query.narrower) - 1)]
                     \o SubSeq(query.narrower, FirstColon(query.narrower) + 1,
                               Len(query.narrower))
        /\ ~KnownCompact(query.narrower) => query.value = query.narrower
        /\ (query.value # query.narrower) = KnownCompact(query.narrower)

\* an identifier with two colons: the local name keeps the second
C18_Witness ==
    /\ Asked("normalize_iri")
    /\ KnownCompact(query.narrower)
    /\ \E i \in 1..Len(query.narrower) :
          i > FirstColon(query.narrower) /\ query.narrower[i] = ":"
    /\ query.value # query.narrower
    /\ \E i \in 1..Len(query.value) : query.value[i] = ":"

\* the compact and the full spelling of an identifier
Spellings(identifier) == {identifier, normalize_iri(identifier)}

\* C19 as stated: for any graph and any two concepts, is_subtype_of returns
\* the same boolean whether each argument is written in compact prefix:local
\* form or as its full IRI: the other three spellings of a query return what
\* it returned.
C19_MixedFormatsAgree ==
    Asked("is_subtype_of") =>
        \A narrower \in Spellings(query.narrower), broader \in Spellings(query.broader) :
            is_subtype_of(query.before, narrower, broader).result = query.result

\* C19 amended: with semantic reasoning enabled, is_subtype_of returns the
\* same boolean for the compact and the full spelling of each argument.
C19_MixedFormatsAgreeWhenEnabled ==
    SEMANTIC_REASONING_ENABLED => C19_MixedFormatsAgree

\* a full IRI below a compact identifier of another concept: True, as for
\* the other spellings
C19_Witness ==
    /\ Asked("is_subtype_of") /\ SEMANTIC_REASONING_ENABLED
    /\ query.narrower = normalize_iri(query.narrower)
    /\ query.broader # normalize_iri(query.broader)
    /\ QueryKey[1] # QueryKey[2]
    /\ QueryKey \notin DOMAIN query.before.relation_cache
    /\ query.result

\* C20: get_instance called with the graph object and the lazy_load value
\* of the current instance returns that instance, its cache and fetched set
\* as they were; there is one current instance, and the get_instance that
\* follows reset_instance (or finds no instance) creates a fresh one, its
\* cache empty.
C20_Singleton ==
    /\ Asked("get_instance") =>
           /\ instance.live
           /\ (query.before.live
                  /\ query.graph.id = query.before.graph_id
                  /\ query.lazy_load = query.before.lazy_load) =>
                  instance = query.before
           /\ ~query.before.live =>
                  /\ DOMAIN instance.relation_cache = {}
                  /\ instance.fetched_namespaces = {}
                  /\ instance.supports_transitive_queries = "None"
                  /\ instance.lazy_load = query.lazy_load
                  /\ instance.graph_id = query.graph.id \/ query.graph = NoGraph
    /\ Asked("reset_instance") => ~instance.live

\* get_instance again, with the same graph object and lazy_load, after a
\* query has filled the cache and fetched a namespace: the same instance
C20_Witness ==
    /\ Asked("get_instance")
    /\ query.before.live
    /\ query.graph.id = query.before.graph_id
    /\ query.lazy_load = query.before.lazy_load
    /\ DOMAIN query.before.relation_cache # {}
    /\ query.before.fetched_namespaces # {}
    /\ instance = query.before

\* the resolver with its graph emptied, its support flag untested and no
\* namespace fetched: a query it answers unchanged did not read the graph,
\* fetch a namespace or test the store
Probe(r) ==
    [r EXCEPT !.graph = {}, !.supports_transitive_queries = "None",
              !.fetched_namespaces = {}]

\* C24: after is_subtype_of(n, b) returns v with semantic reasoning
\* enabled, the cache maps (normalize(n), normalize(b)) to v, whichever
\* path gave v; the same query repeated with no graph mutation in between
\* returns v and leaves the resolver as it is, without querying the graph,
\* fetching a namespace or testing the store again.
C24_Memoized ==
    (Asked("is_subtype_of") /\ SEMANTIC_REASONING_ENABLED) =>
        /\ QueryKey \in DOMAIN instance.relation_cache
        /\ instance.relation_cache[QueryKey] = query.result
        /\ is_subtype_of(instance, query.narrower, query.broader)
               = [result |-> query.result, r |-> instance]
        /\ is_subtype_of(Probe(instance), query.narrower, query.broader)
               = [result |-> query.result, r |-> Probe(instance)]

\* a query on two different concepts repeated: the answer True comes from
\* the cache and the resolver is as it was
C24_Witness ==
    /\ Asked("is_subtype_of") /\ SEMANTIC_REASONING_ENABLED
    /\ QueryKey[1] # QueryKey[2]
    /\ QueryKey \in DOMAIN query.before.relation_cache
    /\ query.result
    /\ instance = query.before

\* the support flag before and after the operation in query
FlagBefore == query.before.supports_transitive_queries
FlagAfter == instance.supports_transitive_queries

\* once set, the flag is found as it was after every operation that leaves
\* the instance in place
FlagPermanent == (SameInstance /\ FlagBefore # "None") => FlagAfter = FlagBefore

\* C25 as stated: the support flag goes from untested to a boolean on the
\* first is_subtype_of query made on the instance, and once set it never
\* returns to untested and never changes value, under any sequence of
\* queries, lazy fetches and add_test_relationship calls.
C25_TestedOnFirstQuery ==
    /\ Asked("is_subtype_of") => FlagAfter # "None"
    /\ FlagPermanent

\* C25 amended: the flag goes from untested to a boolean on the first
\* is_subtype_of query made with semantic reasoning enabled on two
\* identifiers that differ after normalization, and on no other operation;
\* once set it is found unchanged after every later query, lazy fetch and
\* add_test_relationship call on the instance.
C25_TestedOnFirstGraphQuery ==
    /\ (Asked("is_subtype_of") /\ FlagBefore = "None") =>
           ((FlagAfter # "None")
               = (SEMANTIC_REASONING_ENABLED /\ QueryKey[1] # QueryKey[2]))
    /\ ((Asked("add_test_relationship") \/ Asked("parse")) /\ FlagBefore = "None") =>
           FlagAfter = "None"
    /\ FlagPermanent

\* a query on an instance whose flag was set, with a lazy fetch that
\* completed: the flag is as it was
C25_Witness ==
    /\ FetchCompleted /\ SEMANTIC_REASONING_ENABLED
    /\ FlagBefore # "None"
    /\ FlagAfter = FlagBefore

\* what the graph of r gives for a cache key, by the method the store supports
FreshAnswer(r, key) ==
    \/ key[1] = key[2]
    \/ IF backend_transitive
       THEN _check_with_transitive_query(r.graph, key[1], key[2])
       ELSE _check_with_manual_traversal(r.graph, key[1], key[2])

\* C26: threads that call is_subtype_of and add_test_relationship and
\* trigger lazy fetches on one instance are serialized: the query and the
\* cache insert behave as one step, so whatever the interleaving, once
\* every thread has returned every cache entry holds what the graph gives
\* since the last invalidation.
C26_Serialized ==
    (\A t \in Threads : threads[t].pc = "idle") =>
        \A key \in DOMAIN instance.relation_cache :
            instance.relation_cache[key] = FreshAnswer(instance, key)

\* the operands are numeric: of type number or integer
NumericOperands ==
    \A c \in {call.s1, call.s2} : Get(c, "type") \in {"number", "integer"}

\* C27: when the structural join of two numeric operands (type number or
\* integer) raises the ambiguous-bound error, join returns a numeric schema
\* with the lesser minimum and the greater maximum, a missing bound making
\* that side unbounded, with the join annotation attached, and no error
\* reaches the caller; any other error is propagated unchanged.
C27_AmbiguousJoinHandled ==
    call.op = "join.except" /\ NumericOperands =>
        IF call.raised = AmbiguousMessage
        THEN /\ call.error = "none"
             /\ Get(call.schema, "type") \in {"number", "integer"}
             /\ Get(call.schema, "minimum") = Min(NumLo(call.s1), NumLo(call.s2))
             /\ Get(call.schema, "maximum") = Max(NumHi(call.s1), NumHi(call.s2))
             /\ Get(call.schema, "stype") = call.result_stype
        ELSE call.error = call.raised

\* meet(b, a) called after the meet(a, b) that has just returned
Reversed == meet(call.s2, call.s1, instance)

IsBottom(o) == o.error = "none" /\ o.schema = Bottom

\* C28: with semantic reasoning enabled, meet(a, b) is the Bottom schema iff
\* meet(b, a) is, and when neither is Bottom both results carry the same
\* root annotation or none (read for operands without reference cycles).
C28_MeetCommutes ==
    /\ call.op = "meet"
    /\ SEMANTIC_REASONING_ENABLED
    /\ ~HasRecursiveRef(call.s1) /\ ~HasRecursiveRef(call.s2)
    => /\ IsBottom(call) <=> IsBottom(Reversed)
       /\ ~IsBottom(call) =>
              Get(call.schema, "stype") = Get(Reversed.schema, "stype")

\* the resolver after a step is the one before it, with what it had cached
\* and fetched
Kept ==
    /\ instance'.live
    /\ instance'.graph_id = instance.graph_id
    /\ instance'.lazy_load = instance.lazy_load
    /\ \A key \in DOMAIN instance.relation_cache :
           /\ key \in DOMAIN instance'.relation_cache
           /\ instance'.relation_cache[key] = instance.relation_cache[key]
    /\ instance.fetched_namespaces \subseteq instance'.fetched_namespaces

\* C29: once a resolver is installed with get_instance(graph=g, lazy_load=L),
\* for L False and for L True, the get_instance() calls made inside the
\* public operations return that instance, its graph, cache and fetched
\* namespaces intact: a public operation never replaces it.
C29_ConfiguredResolverKept ==
    [][instance.live /\ ncalls' = ncalls + 1 => Kept]_vars

\* C30: on the graph an is_subtype_of call leaves (semantic reasoning
\* enabled), for the two distinct
\* normalized concepts it was asked about, the transitive-path query and the
\* manual breadth-first traversal return the same boolean, chains that mix
\* skos:broader and rdfs:subClassOf edges included.
C30_QueryPathsAgree ==
    (Asked("is_subtype_of") /\ SEMANTIC_REASONING_ENABLED /\ QueryKey[1] # QueryKey[2]) =>
        _check_with_transitive_query(instance.graph, QueryKey[1], QueryKey[2])
            = _check_with_manual_traversal(instance.graph, QueryKey[1], QueryKey[2])

====
